---- MODULE Spec2Model ----
(***************************************************************************)
(* Model of ngmixer/imageio/desmedsio.py: the DES MEDS readers             *)
(* (SVDESMEDSImageIO, Y1DESMEDSImageIO, Y3DESMEDSImageIO).                 *)
(*                                                                         *)
(* The module holds several specifications over one set of variables; each *)
(* specification drives one part of the reader and leaves the variables of *)
(* the other parts at their idle values:                                   *)
(*   SpecExpand  the pure function _expand_mask                            *)
(*   SpecReduce  the mask reduction of _interpolate_maskbits               *)
(*   SpecMask    Y1DESMEDSImageIO._get_multi_band_observations with the    *)
(*               star-flag propagation switched on                         *)
(*   SpecMB      _get_multi_band_observations of the Y1 and the Y3 reader  *)
(*               under every setting of the two options                    *)
(*   SpecHalo    Y1DESMEDSImageIO._get_multi_band_observations with the    *)
(*               stellar-halo check switched on                            *)
(*   SpecBandObs the flux / surface-brightness conversion of               *)
(*               _get_band_observations                                    *)
(*   SpecNbr     _load_wcs_from_files and the placement of an off-chip     *)
(*               neighbour                                                 *)
(*   SpecPsf     the construction of a reader with its PSF backend         *)
(*   SpecWrap    a PIFFWrapper serving get_rec and get_center              *)
(*   SpecFlags   the construction of a reader: _load_meds_files, then      *)
(*               _load_psf_data                                            *)
(*   SpecPiff    _get_piff_object, called for one image after another      *)
(*   SpecPsfMap  the Y3 reader's _load_psf_map and                         *)
(*               _psf_path_from_image_path                                 *)
(*   SpecBadpix  the masks built from configured lists of flag names       *)
(*   SpecTrim    _get_psf_image with _trim_psf                             *)
(***************************************************************************)
EXTENDS Integers, Naturals, Sequences, FiniteSets, TLC

VARIABLES
    pc,            \* position of the driver of the running specification
    \* -- _expand_mask
    bmask,         \* the array handed to _expand_mask, as it was at the call
    rounds,        \* its rounds argument
    cbmask,        \* the array it returned
    bmask_after,   \* the caller's array after the call
    \* -- the mask reduction
    im1,           \* the source bmask cutout
    ignore_mask,   \* conf['propagate_star_flags']['ignore_when_set_mask']
    im1_reduced,   \* im1 after lines 1106-1107
    \* -- _get_multi_band_observations
    cls,           \* the reader class: "Y1" or "Y3"
    conf,          \* the options the handler reads
    meds_bmask,    \* meds.get_cutout(mindex, icut, type='bmask') per <<band, icut>>
    cutout_cen,    \* <<cutout_row, cutout_col>> per <<band, icut>>
    obs_flags,     \* obs.meta['flags'] per <<band, icut>>
    obs_seg,       \* obs.seg per <<band, icut>>
    weight,        \* obs.weight per <<band, icut>>
    bmasks,        \* the list _get_extra_bitmasks returned, per band
    obj_flags,     \* meta['obj_flags'] of the coadd and the multi-epoch bundle
    ran,           \* which steps of the handler have run
    \* -- _load_meds_files and _get_psf_lists
    image_flags2check,     \* conf['image_flags2check']
    replacement_flags,     \* conf['replacement_flags'] is set
    fit_coadd_galaxy,      \* conf['fit_coadd_galaxy']
    meds_sizes_match,      \* every MEDS file holds the same number of objects
    image_info_flags,      \* image_info['image_flags'] per <<band, i>>
    replacement_table,     \* the contents of the replacement-flags file
    psf_world,             \* what loading the PSF of <<band, i>> comes to
    has_replacement_flags, \* hasattr(self, '_replacement_flags')
    replacement_reads,     \* how often the replacement-flags file was read
    image_flags_replaced,  \* image_flags after the replacement step
    all_image_flags,       \* self.all_image_flags per <<band, i>>
    psf_lists,             \* self.psf_lists per <<band, i>>
    psf_lookups,           \* the exposures whose PSF was looked up
    psf_appends,           \* the exposures in the order psf_list.append ran for them
    \* -- _get_piff_object
    allow_missing,         \* conf['imageio']['psfs']['allow_missing']
    piff_summary,          \* the info table of each exposure's summary file
    piff_missing_models,   \* the images whose PIFF model file does not exist
    piff_info,             \* self._piff_info
    piff_reads,            \* how often each exposure's summary file was read
    piff_calls,            \* how many calls of _get_piff_object were made
    piff_last,             \* what the last call was given and came to
    \* -- construction of a reader with its PSF backend
    psf_cls,               \* the reader class: "SV" or "Y3"
    psf_type,              \* conf['imageio']['psfs']['type']
    use_psf_rerun,         \* conf['use_psf_rerun']
    psfex_files,           \* the state of the PSFEx file of <<band, i>>
    blacklist_rows,        \* the rows (key, bflags) of the psfs.blacklist file
    psf_blacklist,         \* self.psf_blacklist: the keys it holds
    psf_error,             \* the exception that ended the construction
    \* -- PIFFWrapper
    stamp_size,            \* self['stamp_size']
    center_cache,          \* self.center_cache
    n_draws,               \* how many reconstructions piff_obj.draw has made
    rec_done,              \* the (row, col) get_rec has been run for
    rec_center,            \* the centre cached by the first get_rec of (row, col)
    wrap_calls,            \* how many calls the wrapper has served
    wrap_last,             \* what the last call was given and came to
    \* -- _get_band_observations
    image_type,            \* conf['imageio']['image_type']
    fitter_type,           \* conf['fitter_type']
    band_obs0,             \* the observations the base class made, per list
    band_obs,              \* the observations as they are now
    \* -- _load_wcs_from_files and _get_offchip_nbr_psf_obs_and_jac
    coadd_image_exists,    \* the coadd image file of the band exists
    read_me_wcs,           \* conf['read_me_wcs']
    scamp_head_exists,     \* the scamp head file of the single-epoch image exists
    nbr_ncutout,           \* meds['ncutout'][nbr_mindex]
    nbr_file_id,           \* meds['file_id'][nbr_mindex,0]; the central's is 0
    uv_nbr,                \* the (u, v) offset step 1 gets from the coadd WCS
    cen_jac0,              \* the central observation's Jacobian before the call
    wcs_transforms,        \* self.wcs_transforms[band]
    cen_jac,               \* the central observation's Jacobian
    nbr_result,            \* what the call came to
    \* -- _load_psf_map and _psf_path_from_image_path
    map_lines,             \* extra_data['psf_map']: whether given, and the map file's lines
    psf_map,               \* self._psf_map
    coadd_psf_map,         \* self._coadd_psf_map
    map_calls,             \* how many PSF paths were asked for
    map_last,              \* what the last _psf_path_from_image_path was given and came to
    \* -- _set_extra_mask_flags and _set_propagate_saturated_stars
    extra_mask_flag_list,  \* conf['extra_mask_flag_list']: whether given, and the names
    propagate_star_flags,  \* conf['propagate_star_flags']
    extra_mask_flags,      \* conf['extra_mask_flags']: whether set, and the value
    ignore_when_set_mask,  \* pconf['ignore_when_set_mask']: whether set, and the value
    \* -- _get_psf_image and _trim_psf
    trim_psf,              \* conf['trim_psf']: whether configured, and its dims
    psf_icut,              \* the icut argument of _get_psf_image
    psf_cen,               \* the centre array psf_obj.get_center gave, in half pixels
    psf_image              \* what _get_psf_image returned: the image and the centre

expandVars == <<bmask, rounds, cbmask, bmask_after>>
reduceVars == <<im1, ignore_mask, im1_reduced>>
mbVars == <<cls, conf, meds_bmask, cutout_cen, obs_flags, obs_seg, weight,
            bmasks, obj_flags, ran>>
flagConfVars == <<image_flags2check, replacement_flags, fit_coadd_galaxy,
                  meds_sizes_match, image_info_flags, replacement_table, psf_world>>
flagVars == <<flagConfVars, has_replacement_flags, replacement_reads,
              image_flags_replaced, all_image_flags, psf_lists, psf_lookups,
              psf_appends>>
piffVars == <<allow_missing, piff_summary, piff_missing_models, piff_info, piff_reads,
              piff_calls, piff_last>>
psfConfVars == <<psf_cls, psf_type, use_psf_rerun, psfex_files, blacklist_rows>>
psfVars == <<psfConfVars, psf_blacklist, psf_error>>
wrapVars == <<stamp_size, center_cache, n_draws, rec_done, rec_center,
              wrap_calls, wrap_last>>
obsVars == <<image_type, fitter_type, band_obs0, band_obs>>
nbrConfVars == <<coadd_image_exists, read_me_wcs, scamp_head_exists, nbr_ncutout,
                 nbr_file_id, uv_nbr, cen_jac0>>
nbrVars == <<nbrConfVars, wcs_transforms, cen_jac, nbr_result>>
mapVars == <<map_lines, psf_map, coadd_psf_map, map_calls, map_last>>
badpixVars == <<extra_mask_flag_list, propagate_star_flags, extra_mask_flags,
               ignore_when_set_mask>>
trimVars == <<trim_psf, psf_icut, psf_cen, psf_image>>
vars == <<pc, expandVars, reduceVars, mbVars, flagVars, piffVars, psfVars, wrapVars, obsVars, nbrVars, mapVars, badpixVars, trimVars>>

(***************************************************************************)
(* Flag values and bad-pixel bits.                                         *)
(***************************************************************************)
IMAGE_FLAGS_SET == 1
PSF_IN_BLACKLIST == 2
PSF_MISSING_S2N == 4
PSF_LOW_S2N == 8

BADPIX_BPM == 1
BADPIX_SATURATE == 2
BADPIX_INTERP == 4
BADPIX_CRAY == 16
BADPIX_STAR == 32

\* the bits set in a non-negative integer, as a set of powers of two
BitValues == {1, 2, 4, 8, 16, 32, 64}
Bits(v) == {b \in BitValues : (v \div b) % 2 = 1}

\* the sum of a set of numbers
RECURSIVE SetSum(_)
SetSum(S) == IF S = {} THEN 0 ELSE LET x == CHOOSE y \in S : TRUE IN x + SetSum(S \ {x})

\* python's & on non-negative integers
RECURSIVE BitAnd(_, _)
BitAnd(a, b) ==
    IF a = 0 \/ b = 0 THEN 0
    ELSE (a % 2) * (b % 2) + 2 * BitAnd(a \div 2, b \div 2)

\* python's | on non-negative integers
RECURSIVE BitOr(_, _)
BitOr(a, b) ==
    IF a = 0 THEN b
    ELSE IF b = 0 THEN a
    ELSE (IF (a % 2) + (b % 2) > 0 THEN 1 ELSE 0) + 2 * BitOr(a \div 2, b \div 2)

(***************************************************************************)
(* Images: a 2-d array of shape <<n0, n1>> is a function on Pixels(shape). *)
(***************************************************************************)
Pixels(shape) == (0..(shape[1] - 1)) \X (0..(shape[2] - 1))

\* the value x itself; comparing it makes TLC tabulate a function or a set
\* once instead of recomputing it at every use
Tab(x) == IF x = x THEN x ELSE x

Zeros(shape) == Tab([p \in Pixels(shape) |-> 0])

\* numpy.where(im != 0)
Nonzero(im) == Tab({p \in DOMAIN im : im[p] # 0})

(***************************************************************************)
(* _expand_mask                                                            *)
(***************************************************************************)
\* bounds of the inputs of SpecExpand
ExpRows == 5
ExpCols == 6
MaxRounds == 2

ExpShape == <<ExpRows, ExpCols>>

\* the pixels one round writes: for every point of the previous list, its
\* in-bounds neighbours ix+dx, iy+dy with dx, dy in [-1,0,1]
expand_targets_4conn(q_prev, shape) ==
    Tab({q \in Pixels(shape) :
            \E p \in q_prev :
                \/ (q[1] = p[1] /\ q[2] - p[2] \in {-1, 0, 1})
                \/ (q[2] = p[2] /\ q[1] - p[1] \in {-1, 0, 1})})

expand_targets(q_prev, shape) ==
    Tab({q \in Pixels(shape) :
            \E p \in q_prev :
                /\ q[1] - p[1] \in {-1, 0, 1}
                /\ q[2] - p[2] \in {-1, 0, 1}})

\* the loop over rounds: cbmask[iix,iiy] = 1 for every target, and the
\* targets become the next round's list
RECURSIVE expand_rounds(_, _, _, _)
expand_rounds(cb, shape, q_prev, r) ==
    IF r = 0 THEN cb
    ELSE LET q == expand_targets(q_prev, shape)
         IN expand_rounds(Tab([p \in DOMAIN cb |-> IF p \in q THEN 1 ELSE cb[p]]),
                          shape, q, r - 1)

\* ret is the returned array, arg the caller's array after the call
\* (cbmask = bmask.copy(), so the loop never writes into bmask)
expand_mask(bm, shape, r) ==
    [ret |-> expand_rounds(bm, shape, Nonzero(bm), r), arg |-> bm]

\* the arrays SpecExpand feeds to _expand_mask: none, one or two flagged
\* pixels, all carrying the same nonzero value
FlagValues == {1, BADPIX_STAR + BADPIX_SATURATE}

ExpInputs ==
    {[p \in Pixels(ExpShape) |-> IF p \in S THEN v ELSE 0] :
        S \in {{}} \cup {{a, b} : a, b \in Pixels(ExpShape)},
        v \in FlagValues}

(***************************************************************************)
(* The mask reduction of _interpolate_maskbits                             *)
(***************************************************************************)
\* is_sat_or_interp & is_bright_star & not_other_bits, for one pixel value
keep_pixel_no_star(v, msk) ==
    /\ (BitAnd(v, BADPIX_SATURATE) # 0 \/ BitAnd(v, BADPIX_INTERP) # 0)
    /\ BitAnd(v, msk) = 0

keep_pixel(v, msk) ==
    /\ (BitAnd(v, BADPIX_SATURATE) # 0 \/ BitAnd(v, BADPIX_INTERP) # 0)
    /\ BitAnd(v, BADPIX_STAR) # 0
    /\ BitAnd(v, msk) = 0

\* im1[:,:] = 0 ; im1[q] = 1
reduce_mask(im, msk) ==
    Tab([p \in DOMAIN im |-> IF keep_pixel(im[p], msk) THEN 1 ELSE 0])

(***************************************************************************)
(* util.interpolate_image_diffsize(rowcen1, colcen1, jacob1, im1,          *)
(*                                 rowcen2, colcen2, jacob2, im2)          *)
(* writes into im2 the values of im1 at the pixels that lie at the same    *)
(* (u, v).  The cutouts of the model all carry the unit Jacobian, so the   *)
(* pixel of im1 that matches p2 is p2 - cen2 + cen1, and a pixel of im2    *)
(* that falls outside im1 keeps its value.                                 *)
(***************************************************************************)
interpolate_image_diffsize(cen1, src, cen2, dst) ==
    Tab([p2 \in DOMAIN dst |->
            LET p1 == <<p2[1] - cen2[1] + cen1[1], p2[2] - cen2[2] + cen1[2]>>
            IN IF p1 \in DOMAIN src THEN src[p1] ELSE dst[p2]])

(***************************************************************************)
(* The object of the model: two bands, each with a coadd cutout (icut 0)   *)
(* and one single-epoch cutout (icut 1), all of box_size x box_size.       *)
(***************************************************************************)
BoxSize == 3

Bands == <<0, 1>>
BandSet == {Bands[i] : i \in DOMAIN Bands}
SECuts == <<1>>
CutSet == {0} \cup {SECuts[i] : i \in DOMAIN SECuts}
Cutouts == BandSet \X CutSet

BoxShape == <<BoxSize, BoxSize>>
Pix == Pixels(BoxShape)

\* meds['number'][mindex], the object's own value in the seg map, and the
\* number of a neighbouring object
seg_number == 1
nbr_number == seg_number + 1

\* mb_obs_list in loop order: for band, obs_list in enumerate(mb_obs_list):
\* for obs in obs_list: <<band, obs.meta['icut']>>
mb_obs == <<<<0, 1>>, <<1, 1>>>>
\* coadd_mb_obs_list in the same order
coadd_mb_obs == <<<<0, 0>>, <<1, 0>>>>

\* bmask |= bmaski
ImageOr(a, b) == Tab([p \in DOMAIN a |-> BitOr(a[p], b[p])])

interpolate_maskbits(mb, cen, msk, band1, icutout1, band2, icutout2) ==
    interpolate_image_diffsize(
        cen[<<band1, icutout1>>], reduce_mask(mb[<<band1, icutout1>>], msk),
        cen[<<band2, icutout2>>], Zeros(BoxShape))

\* the inner loops of _get_extra_bitmasks over mb_obs_list, from entry i on
RECURSIVE extra_bitmask_loop(_, _, _, _, _, _, _)
extra_bitmask_loop(acc, mb, cen, of, msk, bandt, i) ==
    IF i > Len(mb_obs) THEN acc
    ELSE LET o == mb_obs[i]
             nxt == IF of[o] = 0
                    THEN ImageOr(acc, interpolate_maskbits(mb, cen, msk,
                                                           o[1], o[2], bandt, 0))
                    ELSE acc
         IN extra_bitmask_loop(nxt, mb, cen, of, msk, bandt, i + 1)

\* the band's own coadd bmask goes in as it is, when the coadd is unflagged
get_extra_bitmasks(mb, cen, of, msk) ==
    Tab([bandt \in BandSet |->
            LET base == IF of[<<bandt, 0>>] = 0
                        THEN ImageOr(Zeros(BoxShape), mb[<<bandt, 0>>])
                        ELSE Zeros(BoxShape)
            IN extra_bitmask_loop(base, mb, cen, of, msk, bandt, 1)])

\* the band's combined mask, interpolated to cutout icut and expanded
prop_mask(bms, cen, band, icut) ==
    expand_mask(
        interpolate_image_diffsize(cen[<<band, 0>>], bms[band],
                                   cen[<<band, icut>>], Zeros(BoxShape)),
        BoxShape, 2).ret

\* q = numpy.where((bmaski != 0) & (obs.seg == 0))
zeroed_pixels_ignore_seg(bmaski, seg) == Tab({p \in Pix : bmaski[p] # 0})

zeroed_pixels(bmaski, seg) == Tab({p \in Pix : bmaski[p] # 0 /\ seg[p] = 0})

\* the weights of every observation after _prop_extra_bitmasks
prop_extra_bitmasks(bms, cen, of, seg, w) ==
    [o \in DOMAIN w |->
        IF o[2] # 0 /\ of[o] = 0
        THEN LET q == zeroed_pixels(prop_mask(bms, cen, o[1], o[2]), seg[o])
             IN [p \in Pix |-> IF p \in q THEN 0 ELSE w[o][p]]
        ELSE w[o]]

\* line 1247 at one pixel: (bmask & starflag != 0) & (obs.seg == seg_number)
halo_pixel_ignore_seg(bm, sg) == BitAnd(bm, BADPIX_STAR) # 0

halo_pixel(bm, sg) == BitAnd(bm, BADPIX_STAR) # 0 /\ sg = seg_number

\* _flag_y1_stellarhalo_masked_one over one bundle, from entry i on
RECURSIVE stellarhalo_masked_one(_, _, _, _, _)
stellarhalo_masked_one(lst, mb, of, seg, i) ==
    IF i > Len(lst) THEN 0
    ELSE LET o == lst[i]
         IN IF of[o] = 0 /\ \E p \in Pix : halo_pixel(mb[o][p], seg[o][p])
            THEN 1
            ELSE stellarhalo_masked_one(lst, mb, of, seg, i + 1)

\* _flag_y1_stellarhalo_masked: the flag, and whether the multi-epoch bundle
\* was examined
flag_y1_stellarhalo_masked(mb, of, seg) ==
    LET flags == stellarhalo_masked_one(coadd_mb_obs, mb, of, seg, 1)
    IN IF flags = 0
       THEN [flags |-> stellarhalo_masked_one(mb_obs, mb, of, seg, 1),
             mb_examined |-> TRUE]
       ELSE [flags |-> flags, mb_examined |-> FALSE]

(***************************************************************************)
(* _load_meds_files, _get_replacement_flags, _get_psf_objects              *)
(***************************************************************************)
\* image_info.size per band: band 0 has a coadd and two single-epoch
\* images, band 1 a coadd and one
NImages == <<3, 2>>
Exps(b) == 0..(NImages[b + 1] - 1)
Exposures == {e \in BandSet \X (0..2) : e[2] \in Exps(e[1])}
ExposuresUpTo(b) == {e \in Exposures : e[1] <= b}

\* the empty list of flags
NoFlags == [e \in {} |-> 0]

\* CombinedImageFlags.get_flags_multi(filenames, default=default): the flags
\* the table holds for each file name, and the default for a name it lacks.
\* An image is named by its <<band, i>>.
get_flags_multi(table, filenames, default) ==
    [f \in filenames |-> IF f \in DOMAIN table THEN table[f] ELSE default]

\* _get_replacement_flags(filenames) on a reader in state st = [has, reads]:
\* the table is read when the reader has no _replacement_flags yet
get_replacement_flags_default0(st, table, check, filenames) ==
    [st |-> [has |-> TRUE, reads |-> IF st.has THEN st.reads ELSE st.reads + 1],
     flags |-> get_flags_multi(table, filenames, 0)]

get_replacement_flags(st, table, check, filenames) ==
    [st |-> [has |-> TRUE, reads |-> IF st.has THEN st.reads ELSE st.reads + 1],
     flags |-> get_flags_multi(table, filenames, check)]

\* lines 735-745 for one image's flag: zero, or IMAGE_FLAGS_SET where the
\* flag shares a bit with image_flags2check
reduce_flag_any(flag, check) == IF flag # 0 THEN IMAGE_FLAGS_SET ELSE 0

reduce_flag_keep(flag, check) == IF BitAnd(flag, check) # 0 THEN flag ELSE 0

reduce_flag(flag, check) == IF BitAnd(flag, check) # 0 THEN IMAGE_FLAGS_SET ELSE 0

\* the body of the loop of _load_meds_files for band b, on the state
\* acc = [st, replaced, all, raised] the earlier bands left
load_band(acc, b, info, table, check, configured, sizes_match) ==
    IF b > 0 /\ ~sizes_match
    THEN [acc EXCEPT !.raised = TRUE]
    ELSE LET cut == {e \in Exposures : e[1] = b /\ e[2] >= 1}
             rep == IF configured /\ NImages[b + 1] > 1
                    THEN get_replacement_flags(acc.st, table, check, cut)
                    ELSE [st |-> acc.st, flags |-> [e \in cut |-> info[e]]]
             image_flags == [e \in {<<b, 0>>} \cup cut |->
                                IF e[2] = 0 THEN info[e] ELSE rep.flags[e]]
             reduced == [e \in DOMAIN image_flags |->
                            IF e[2] = 0 THEN image_flags[e]
                            ELSE reduce_flag(image_flags[e], check)]
         IN [st |-> rep.st,
             replaced |-> [e \in ExposuresUpTo(b) |->
                              IF e[1] = b THEN image_flags[e] ELSE acc.replaced[e]],
             all |-> [e \in ExposuresUpTo(b) |->
                         IF e[1] = b THEN reduced[e] ELSE acc.all[e]],
             raised |-> FALSE]

\* for i,funexp in enumerate(self.meds_files), from band b on
RECURSIVE load_meds_files(_, _, _, _, _, _, _)
load_meds_files(acc, b, info, table, check, configured, sizes_match) ==
    IF b \notin BandSet \/ acc.raised THEN acc
    ELSE load_meds_files(load_band(acc, b, info, table, check, configured, sizes_match),
                         b + 1, info, table, check, configured, sizes_match)

\* the outcomes of _get_piff_object / _get_psfex_object for one image
PsfLoaded == [obj |-> TRUE, flags |-> 0, raises |-> FALSE]
PsfFlagged(f) == [obj |-> FALSE, flags |-> f, raises |-> FALSE]
PsfMissingData == [obj |-> FALSE, flags |-> 0, raises |-> TRUE]

\* whether _get_psf_objects loads no PSF for image i because it is the coadd
\* and the coadd is not fit (line 660)
skip_coadd_psf_never(i, fit_coadd) == FALSE

skip_coadd_psf(i, fit_coadd) == i = 0 /\ ~fit_coadd

\* lines 680-681: if psf_flags != 0: self.all_image_flags[band][i] |= psf_flags
or_psf_flags_dropped(flags, psf_flags) == flags

or_psf_flags(flags, psf_flags) ==
    IF psf_flags # 0 THEN BitOr(flags, psf_flags) ELSE flags

\* the body of the loop of _get_psf_objects for image e, on the state
\* acc = [all, psf, lookups, appends, raised]
get_psf_object(acc, e, world, check, fit_coadd) ==
    LET flags == acc.all[e]
    IN IF skip_coadd_psf(e[2], fit_coadd)
       THEN [acc EXCEPT !.all[e] = BitOr(@, 1), !.psf[e] = "None",
                        !.appends = Append(@, e)]
       ELSE IF BitAnd(flags, check) = 0
            THEN IF world[e].raises
                 THEN [acc EXCEPT !.lookups = @ \cup {e}, !.raised = TRUE]
                 ELSE [acc EXCEPT !.lookups = @ \cup {e},
                                  !.psf[e] = IF world[e].obj THEN "obj" ELSE "None",
                                  !.all[e] = or_psf_flags(@, world[e].flags),
                                  !.appends = Append(@, e)]
            ELSE [acc EXCEPT !.psf[e] = "None", !.appends = Append(@, e)]

\* _get_psf_lists: for band in self.iband, for i in xrange(nimage), from
\* image <<b, i>> on
RECURSIVE get_psf_lists(_, _, _, _, _, _)
get_psf_lists(acc, b, i, world, check, fit_coadd) ==
    IF b \notin BandSet \/ acc.raised THEN acc
    ELSE IF i \notin Exps(b) THEN get_psf_lists(acc, b + 1, 0, world, check, fit_coadd)
    ELSE get_psf_lists(get_psf_object(acc, <<b, i>>, world, check, fit_coadd),
                       b, i + 1, world, check, fit_coadd)

(***************************************************************************)
(* _read_piff_exp_info, _get_piff_info, _get_piff_object                   *)
(***************************************************************************)
\* the detector _get_piff_object rejects
ExcludedCCD == 31

\* _get_expccd_and_key: an image path gives an exposure name and a ccd; the
\* model names an image path by that pair
impath_expname(impath) == impath[1]
impath_ccd(impath) == impath[2]

\* a summary file that does not exist, and one holding an info table that
\* gives some ccds a flag
NoTable == [c \in {} |-> 0]
MissingSummary == [exists |-> FALSE, table |-> NoTable]
Summary(t) == [exists |-> TRUE, table |-> t]

\* what the cache holds for an exposure: None, or the info table
NoneInfo == [none |-> TRUE, table |-> NoTable]
Info(t) == [none |-> FALSE, table |-> t]

read_piff_exp_info_skip(summary, allow, expname) ==
    IF ~summary[expname].exists
    THEN [raises |-> FALSE, info |-> NoneInfo]
    ELSE [raises |-> FALSE, info |-> Info(summary[expname].table)]

\* _read_piff_exp_info: the info table of the summary file, None where the
\* file is missing and that is allowed, RuntimeError otherwise
read_piff_exp_info(summary, allow, expname) ==
    IF ~summary[expname].exists
    THEN IF allow THEN [raises |-> FALSE, info |-> NoneInfo]
                  ELSE [raises |-> TRUE, info |-> NoneInfo]
    ELSE [raises |-> FALSE, info |-> Info(summary[expname].table)]

\* line 526: expname not in all_info, negated
piff_info_cached_never(all_info, expname) == FALSE

piff_info_cached(all_info, expname) == expname \in DOMAIN all_info

\* _get_piff_info on the cache all_info: the record of the ccd, None, or
\* RuntimeError; the cache afterwards, and whether the summary file was read
get_piff_info(all_info, summary, allow, expname, ccd) ==
    LET hit == piff_info_cached(all_info, expname)
        rd == IF hit
              THEN [raises |-> FALSE, info |-> all_info[expname]]
              ELSE read_piff_exp_info(summary, allow, expname)
        cache == IF rd.raises THEN all_info
                 ELSE [e \in DOMAIN all_info \cup {expname} |->
                          IF e = expname THEN rd.info ELSE all_info[e]]
        norec == [ccdnum |-> 0, flag |-> 0]
        out(kind, rec) == [kind |-> kind, cache |-> cache, rec |-> rec, read |-> ~hit]
    IN IF rd.raises THEN out("RuntimeError", norec)
       ELSE IF rd.info.none THEN out("None", norec)
       ELSE IF ccd \notin DOMAIN rd.info.table THEN out("RuntimeError", norec)
       ELSE out("record", [ccdnum |-> ccd, flag |-> rd.info.table[ccd]])

\* line 569, for a record
piff_rejects_flag_only(info) == info.flag # 0

piff_rejects(info) == info.flag # 0 \/ info.ccdnum = ExcludedCCD

\* _get_piff_object(impath)
get_piff_object(all_info, summary, allow, missing_models, impath) ==
    LET i == get_piff_info(all_info, summary, allow,
                           impath_expname(impath), impath_ccd(impath))
        out(kind, obj, flags, touched) ==
            [kind |-> kind, psf_obj |-> obj, flags |-> flags,
             touched |-> touched, cache |-> i.cache, read |-> i.read]
    IN IF i.kind = "RuntimeError" THEN out("RuntimeError", FALSE, 0, FALSE)
       ELSE IF i.kind = "None" THEN out("returned", FALSE, PSF_IN_BLACKLIST, FALSE)
       ELSE IF piff_rejects(i.rec) THEN out("returned", FALSE, PSF_IN_BLACKLIST, FALSE)
       ELSE IF impath \in missing_models THEN out("MissingDataError", FALSE, 0, TRUE)
       ELSE out("returned", TRUE, 0, TRUE)

(***************************************************************************)
(* _get_psfex_object, the PSF backends of _get_psf_objects, and            *)
(* Y3DESMEDSImageIO._load_psf_blacklist                                    *)
(***************************************************************************)
PSF_FILE_READ_ERROR == 16

\* a PSF backend raises an exception of the given kind
PsfRaises(kind) == [obj |-> FALSE, flags |-> 0, raises |-> TRUE, error |-> kind]

\* lines 623-639, reached with flags == 0: the file is "ok", "missing" or
\* "corrupt" (PSFEx raises PSFExError or IOError on it)
psfex_file_outcome_flag(file) ==
    IF file = "ok" THEN PsfLoaded ELSE PsfFlagged(PSF_FILE_READ_ERROR)

psfex_file_outcome(file) ==
    IF file = "ok" THEN PsfLoaded ELSE PsfRaises("MissingDataError")

\* _get_psfex_object for the PSF path of image e; the path of a coadd (i = 0)
\* holds 'coadd'.  With use_psf_rerun, for a path of a single-epoch image,
\* line 603 calls self._get_psfex_blacklist_key, which the reader does not
\* define (its key helper is _get_psf_blacklist_key), and line 605 reads
\* self._psf_blacklist, which nothing sets: the call ends in AttributeError.
get_psfex_object(rerun, e, files) ==
    IF rerun /\ e[2] # 0 THEN PsfRaises("AttributeError")
    ELSE psfex_file_outcome(files[e])

\* the image path of <<band, i>>, as _get_expccd_and_key reads it: band 0 is
\* of one exposure and band 1 of another, and the second single-epoch image
\* of a band is of the rejected detector
ExposureImPath(e) ==
    <<IF e[1] = 0 THEN "D00000001" ELSE "D00000002", IF e[2] = 2 THEN ExcludedCCD ELSE 1>>

\* _get_piff_object for image e, as an outcome.  The cache of _get_piff_info
\* holds for an exposure what reading its summary gives, so the outcome is
\* that of a call on the empty cache.
piff_outcome(summary, allow, missing_models, e) ==
    LET r == get_piff_object([x \in {} |-> NoneInfo], summary, allow,
                             missing_models, ExposureImPath(e))
    IN IF r.kind = "returned"
       THEN IF r.psf_obj THEN PsfLoaded ELSE PsfFlagged(r.flags)
       ELSE PsfRaises(r.kind)

\* lines 669-678: the backend the reader is configured with, for each image
psf_backend_world(type, rerun, files, summary, allow, missing_models) ==
    [e \in Exposures |->
        IF type = "piff" THEN piff_outcome(summary, allow, missing_models, e)
        ELSE get_psfex_object(rerun, e, files)]

\* Y3DESMEDSImageIO._load_psf_blacklist: the keys of the rows with bflags set
load_psf_blacklist(rows) == {k \in DOMAIN rows : rows[k] # 0}

(***************************************************************************)
(* PIFFWrapper                                                             *)
(***************************************************************************)
\* an empty center_cache; a centre is a pair of half-pixels, twice the
\* (row, col) centre
NoCenters == [k \in {} |-> <<0, 0>>]

\* _get_center_cache_key: the method formats '%.16g-%.16g' % (row, col) into
\* a local and has no return statement, so every call gives None
get_center_cache_key(row, col) == "None"

\* cen = (numpy.array(im.shape)-1.0)/2.0 for the stamp_size x stamp_size
\* image that draw gives, in half-pixels
stamp_center(size) == <<size - 1, size - 1>>

\* _cache_center(row, col, im) on the cache
cache_center(cache, row, col, size) ==
    LET key == get_center_cache_key(row, col)
    IN [k \in DOMAIN cache \cup {key} |->
           IF k = key THEN stamp_center(size) ELSE cache[k]]

\* get_rec(row, col): one reconstruction, and the centre is cached
get_rec(cache, row, col, size) ==
    [cache |-> cache_center(cache, row, col, size), draws |-> 1]

\* if key not in self.center_cache
center_not_cached_always(cache, key) == TRUE

center_not_cached(cache, key) == key \notin DOMAIN cache

\* get_center(row, col)
get_center(cache, row, col, size) ==
    LET key == get_center_cache_key(row, col)
        r == IF center_not_cached(cache, key) THEN get_rec(cache, row, col, size)
             ELSE [cache |-> cache, draws |-> 0]
    IN [cache |-> r.cache, draws |-> r.draws, cen |-> r.cache[key]]

(***************************************************************************)
(* SVDESMEDSImageIO._get_band_observations                                 *)
(***************************************************************************)
\* an array that is None
None == <<>>

\* 'galsim' in fitter_type, for the fitter types of the model
has_galsim(ft) == ft \in {"galsim", "metacal-galsim"}

\* pixel_scale2 = obs.jacobian.scale**2; pixel_scale4 = pixel_scale2*pixel_scale2
pixel_scale2(scale) == scale * scale
pixel_scale4_as_scale2(scale) == scale * scale
pixel_scale4(scale) == pixel_scale2(scale) * pixel_scale2(scale)

\* array * factor and array / factor; the arrays of the model hold multiples
\* of the factors, so the quotient is exact
ArrayTimes(a, f) == [i \in DOMAIN a |-> a[i] * f]
ArrayOver(a, f) == [i \in DOMAIN a |-> a[i] \div f]

\* whether ngmix's Observation.set_weight(weight) raises GMixFatalError: it
\* does for a weight map with no positive pixel
set_weight_raises(wt) == \A i \in DOMAIN wt : wt[i] <= 0

\* the weight as handed to set_weight, with no handler of GMixFatalError
stored_weight_unforced(wt) == wt

\* lines 274-285 and 303-314: the weight the observation is left with; on
\* GMixFatalError, weight[0, 0] = 1.0 and set_weight again
stored_weight(wt) ==
    IF set_weight_raises(wt)
    THEN [i \in DOMAIN wt |-> IF i = 1 THEN 1 ELSE wt[i]]
    ELSE wt

\* the loop body for one observation: to a flux image (lines 266-290) and to
\* a surface-brightness image (lines 295-319)
obs_to_flux(obs) ==
    IF obs.flags # 0 THEN obs
    ELSE [obs EXCEPT
            !.image = ArrayTimes(obs.image, pixel_scale2(obs.scale)),
            !.weight = stored_weight(ArrayOver(obs.weight, pixel_scale4(obs.scale))),
            !.weight_raw = IF @ = None THEN None ELSE ArrayOver(@, pixel_scale4(obs.scale)),
            !.weight_us = IF @ = None THEN None ELSE ArrayOver(@, pixel_scale4(obs.scale))]

obs_to_surface_brightness(obs) ==
    IF obs.flags # 0 THEN obs
    ELSE [obs EXCEPT
            !.image = ArrayOver(obs.image, pixel_scale2(obs.scale)),
            !.weight = stored_weight(ArrayTimes(obs.weight, pixel_scale4(obs.scale))),
            !.weight_raw = IF @ = None THEN None ELSE ArrayTimes(@, pixel_scale4(obs.scale)),
            !.weight_us = IF @ = None THEN None ELSE ArrayTimes(@, pixel_scale4(obs.scale))]

\* _get_band_observations on the two lists the base class returns
get_band_observations(imtype, ft, lists) ==
    IF imtype = "surface_brightness" /\ has_galsim(ft)
    THEN [l \in DOMAIN lists |-> [k \in DOMAIN lists[l] |-> obs_to_flux(lists[l][k])]]
    ELSE IF imtype # "surface_brightness" /\ ~has_galsim(ft)
    THEN [l \in DOMAIN lists |->
             [k \in DOMAIN lists[l] |-> obs_to_surface_brightness(lists[l][k])]]
    ELSE lists

(***************************************************************************)
(* Y1DESMEDSImageIO._load_wcs_from_files and                               *)
(* _get_offchip_nbr_psf_obs_and_jac                                        *)
(***************************************************************************)
\* the file id of the coadd image of the band, and of its single-epoch image
coadd_file_id == 0
se_file_id == coadd_file_id + 1

\* _load_wcs_from_files for one band: a WCS for the coadd if its image file
\* exists and None if not; with read_me_wcs, the same for the scamp head of
\* the single-epoch image
load_wcs_from_files(coadd_exists, read_me, scamp_exists) ==
    [i \in (IF read_me THEN {coadd_file_id, se_file_id} ELSE {coadd_file_id}) |->
        IF i = coadd_file_id
        THEN IF coadd_exists THEN "WCS" ELSE "None"
        ELSE IF scamp_exists THEN "WCS" ELSE "None"]

\* the determinant of the matrix of a Jacobian
jac_det(J) == J.dudrow * J.dvdcol - J.dudcol * J.dvdrow

\* rowcol_nbr = numpy.dot(Jinv, uv_nbr) + numpy.array([row0, col0]); the
\* offsets of the model are multiples of the determinant, so the quotient is
\* exact
rowcol_nbr(J, uv) ==
    <<(J.dvdcol * uv[1] - J.dudcol * uv[2]) \div jac_det(J) + J.row0,
      (J.dudrow * uv[2] - J.dvdrow * uv[1]) \div jac_det(J) + J.col0>>

\* J_nbr = J.copy(); J_nbr.set_cen(row=..., col=...): the neighbour's
\* Jacobian, and the central's afterwards
recenter_in_place(J, rc) ==
    [nbr |-> [J EXCEPT !.row0 = rc[1], !.col0 = rc[2]],
     cen |-> [J EXCEPT !.row0 = rc[1], !.col0 = rc[2]]]

recenter_copy(J, rc) ==
    [nbr |-> [J EXCEPT !.row0 = rc[1], !.col0 = rc[2]], cen |-> J]

\* _get_offchip_nbr_psf_obs_and_jac
get_offchip_nbr_psf_obs_and_jac(wcs, ncutout, file_id_nbr, uv, J) ==
    LET out(kind, psf, jacs) ==
            [kind |-> kind, psf |-> psf, jac |-> jacs.nbr, cen_jac |-> jacs.cen]
        same == [nbr |-> J, cen |-> J]
    IN IF ncutout = 0 THEN out("returned", "None", same)
       ELSE IF file_id_nbr # coadd_file_id THEN out("AssertionError", "None", same)
       ELSE IF wcs[coadd_file_id] = "None" THEN out("AttributeError", "None", same)
       ELSE IF jac_det(J) = 0 THEN out("LinAlgError", "None", same)
       ELSE out("returned", "cen_obs.psf", recenter_copy(J, rowcol_nbr(J, uv)))

(***************************************************************************)
(* Strings are sequences of one-character strings.                         *)
(***************************************************************************)
DigitChars == <<"0", "1", "2", "3", "4", "5", "6", "7", "8", "9">>

\* the decimal digits of a natural number, as str() writes them
RECURSIVE DecDigits(_)
DecDigits(n) ==
    IF n < 10 THEN <<DigitChars[n + 1]>>
    ELSE DecDigits(n \div 10) \o <<DigitChars[(n % 10) + 1]>>

\* a run of k zeros
RECURSIVE ZeroRun(_)
ZeroRun(k) == IF k <= 0 THEN <<>> ELSE <<"0">> \o ZeroRun(k - 1)

\* '%d' % n
format_d(n) ==
    IF n < 0 THEN <<"-">> \o DecDigits(0 - n) ELSE DecDigits(n)

\* '%0<w>d' % n: padded with zeros, after the sign, to at least w characters
format_0d(w, n) ==
    IF n < 0
    THEN <<"-">> \o ZeroRun(w - 1 - Len(DecDigits(0 - n))) \o DecDigits(0 - n)
    ELSE ZeroRun(w - Len(DecDigits(n))) \o DecDigits(n)

\* the value of a run of decimal digits
RECURSIVE DigitsValue(_)
DigitsValue(ds) ==
    IF ds = <<>> THEN 0
    ELSE 10 * DigitsValue(SubSeq(ds, 1, Len(ds) - 1))
         + (CHOOSE d \in 0..9 : DigitChars[d + 1] = ds[Len(ds)])

\* int(s) for a string of digits with an optional sign
py_int(str) ==
    IF str[1] = "-" THEN 0 - DigitsValue(Tail(str))
    ELSE IF str[1] = "+" THEN DigitsValue(Tail(str))
    ELSE DigitsValue(str)

\* s.split(sep)
RECURSIVE split_from(_, _, _, _)
split_from(str, sep, i, field) ==
    IF i > Len(str) THEN <<field>>
    ELSE IF str[i] = sep THEN <<field>> \o split_from(str, sep, i + 1, <<>>)
    ELSE split_from(str, sep, i + 1, Append(field, str[i]))

split(str, sep) == split_from(str, sep, 1, <<>>)

\* s.strip().split(): the runs of characters between blanks
whitespace_split(str) == SelectSeq(split(str, " "), LAMBDA f : f # <<>>)

\* os.path.basename
basename(path) == LET fs == split(path, "/") IN fs[Len(fs)]

(***************************************************************************)
(* Y3DESMEDSImageIO._load_psf_map, _get_expccd_and_key and                 *)
(* _psf_path_from_image_path.  The patterns of the model hold no '$', so   *)
(* os.path.expandvars leaves them as they are.                             *)
(***************************************************************************)
COADD_EXPNUM == 0 - 9999

NoPsfMap == [k \in {} |-> <<>>]
NoMapFile == [given |-> FALSE, lines |-> <<>>]

\* key = 'D%08d-%02d' % (expnum, ccdnum), with the detector not padded
desdm_key_unpadded(expnum, ccdnum) ==
    <<"D">> \o format_0d(8, expnum) \o <<"-">> \o format_d(ccdnum)

\* key = 'D%08d-%02d' % (expnum, ccdnum)
desdm_key(expnum, ccdnum) ==
    <<"D">> \o format_0d(8, expnum) \o <<"-">> \o format_0d(2, ccdnum)

\* psf_map[key] = pattern
map_store(map, key, pattern) ==
    [k \in DOMAIN map \cup {key} |-> IF k = key THEN pattern ELSE map[k]]

\* the loop of _load_psf_map over the lines of one map file, from line i on
RECURSIVE load_psf_map_lines(_, _, _)
load_psf_map_lines(acc, lines, i) ==
    IF i > Len(lines) THEN acc
    ELSE LET ls == whitespace_split(lines[i])
         IN IF Len(ls) = 2
            THEN load_psf_map_lines(
                     [acc EXCEPT !.psf_map = map_store(@, ls[1], ls[2])],
                     lines, i + 1)
            ELSE IF Len(ls) = 3
            THEN IF py_int(ls[1]) = COADD_EXPNUM
                 THEN load_psf_map_lines(
                          [acc EXCEPT !.coadd_psf_map = Append(@, ls[3])],
                          lines, i + 1)
                 ELSE load_psf_map_lines(
                          [acc EXCEPT !.psf_map =
                              map_store(@, desdm_key(py_int(ls[1]), py_int(ls[2])),
                                        ls[3])],
                          lines, i + 1)
            ELSE [acc EXCEPT !.error = "ValueError"]

\* _load_psf_map with one map file in extra_data['psf_map'], or with none
load_psf_map(map_file) ==
    IF ~map_file.given
    THEN [psf_map |-> NoPsfMap, coadd_psf_map |-> <<>>, error |-> "RuntimeError"]
    ELSE LET done == load_psf_map_lines(
                         [psf_map |-> NoPsfMap, coadd_psf_map |-> <<>>,
                          error |-> "none"], map_file.lines, 1)
         IN IF done.error # "none" THEN done
            ELSE IF Len(done.coadd_psf_map) # 1
            THEN [done EXCEPT !.error = "AssertionError"]
            ELSE done

get_expccd_and_key(image_path) ==
    LET bname == basename(image_path)
        fs == split(bname, "_")
        des == SubSeq(bname, 1, 3) = <<"D", "E", "S">>
        expname == IF des THEN fs[3] ELSE fs[1]
        ccd == IF des THEN Tail(fs[5]) ELSE Tail(fs[3])
    IN [expname |-> expname, ccd |-> ccd, key |-> expname \o <<"-">> \o ccd]

psf_path_from_image_path(map, image_path) ==
    LET key == get_expccd_and_key(image_path).key
    IN IF key \in DOMAIN map
       THEN [kind |-> "returned", path |-> map[key]]
       ELSE [kind |-> "KeyError", path |-> <<>>]

NoMapCall == [image_path |-> <<>>, kind |-> "none", path |-> <<>>]

(***************************************************************************)
(* The bad-pixel maps, _set_extra_mask_flags and                           *)
(* _set_propagate_saturated_stars                                          *)
(***************************************************************************)
DESY3_BADPIX_MAP ==
    [BPM |-> BADPIX_BPM, SATURATE |-> BADPIX_SATURATE, INTERP |-> BADPIX_INTERP,
     BADAMP |-> 8, CRAY |-> BADPIX_CRAY, STAR |-> BADPIX_STAR, TRAIL |-> 64,
     EDGEBLEED |-> 128, SSXTALK |-> 256, EDGE |-> 512, STREAK |-> 1024,
     SUSPECT |-> 2048]

DESY4_BADPIX_MAP ==
    [BPM |-> 1, SATURATE |-> 2, INTERP |-> 4, BADAMP |-> 8, CRAY |-> 16,
     STAR |-> 32, TRAIL |-> 64, EDGEBLEED |-> 128, SSXTALK |-> 256, EDGE |-> 512,
     STREAK |-> 1024, SUSPECT |-> 2048, FIXED |-> 4096, NEAREDGE |-> 8192,
     TAPEBUMP |-> 16384]

\* flags = 0; for flagname in flag_list: flags |= DESY3_BADPIX_MAP[flagname]
RECURSIVE or_flag_values(_, _)
or_flag_values(flags, flag_list) ==
    IF flag_list = <<>> THEN flags
    ELSE or_flag_values(BitOr(flags, DESY3_BADPIX_MAP[Head(flag_list)]),
                        Tail(flag_list))

\* flags = 0; for flagname in flag_list: flags += DESY3_BADPIX_MAP[flagname]
RECURSIVE sum_flag_values(_, _)
sum_flag_values(flags, flag_list) ==
    IF flag_list = <<>> THEN flags
    ELSE sum_flag_values(flags + DESY3_BADPIX_MAP[Head(flag_list)],
                         Tail(flag_list))

MaskUnset == [set |-> FALSE, value |-> 0]
MaskSet(v) == [set |-> TRUE, value |-> v]

NoFlagList == [given |-> FALSE, names |-> <<>>]
NoPropagateConf == [given |-> FALSE, propagate |-> FALSE, ignore_when_set |-> <<>>]

\* conf['extra_mask_flags'] after _set_extra_mask_flags
set_extra_mask_flags(flag_list, before) ==
    IF flag_list.given THEN MaskSet(sum_flag_values(0, flag_list.names))
    ELSE before

\* conf['propagate_star_flags'] and its ignore_when_set_mask after
\* _set_propagate_saturated_stars
set_propagate_saturated_stars(pconf, before) ==
    IF ~pconf.given
    THEN [pconf |-> [NoPropagateConf EXCEPT !.given = TRUE], mask |-> before]
    ELSE IF pconf.propagate
    THEN [pconf |-> pconf,
          mask |-> MaskSet(sum_flag_values(0, pconf.ignore_when_set))]
    ELSE [pconf |-> pconf, mask |-> before]

(***************************************************************************)
(* SVDESMEDSImageIO._get_psf_image and _trim_psf.  A centre is held in     *)
(* half pixels (twice its value), so that centres like 2.5 are integers;   *)
(* the PSF image holds at each pixel that pixel's own coordinates.         *)
(***************************************************************************)
StampShape == <<6, 6>>

\* im = psf_obj.get_rec(row, col)
StampImage == Tab([p \in Pixels(StampShape) |-> p])

\* int(x) for x given in half units: python truncates towards zero
int_of_halves(x2) == IF x2 >= 0 THEN x2 \div 2 ELSE 0 - ((0 - x2) \div 2)

\* int(cen - dim/2.0 + 0.5) and int(cen + dim/2.0 + 0.5), cen in half pixels
trim_start(cen2, dim) == int_of_halves(cen2 - dim + 1)
trim_end(cen2, dim) == int_of_halves(cen2 + dim + 1)

\* the indices python's slice start:stop selects on an axis of length n
slice_indices(start, stop, n) ==
    LET clip(k) == IF k < 0 THEN (IF k + n < 0 THEN 0 ELSE k + n)
                   ELSE (IF k > n THEN n ELSE k)
    IN {k \in 0..(n - 1) : clip(start) <= k /\ k < clip(stop)}

\* im[rowstart:rowend, colstart:colend], its pixels counted from 0 again
slice_image(im, shape, rowstart, rowend, colstart, colend) ==
    LET rows_kept == slice_indices(rowstart, rowend, shape[1])
        cols_kept == slice_indices(colstart, colend, shape[2])
        first(S) == CHOOSE k \in S : \A x \in S : k <= x
    IN IF rows_kept = {} \/ cols_kept = {}
       THEN [q \in {} |-> <<0, 0>>]
       ELSE [q \in (0..(Cardinality(rows_kept) - 1)) \X (0..(Cardinality(cols_kept) - 1))
                |-> im[<<q[1] + first(rows_kept), q[2] + first(cols_kept)>>]]

\* lines 385-386 with the column taken from colstart
trim_newcen_by_axis(cen, rowstart, colstart) ==
    <<cen[1] - 2 * rowstart, cen[2] - 2 * colstart>>

\* lines 384-386: newcen = cen.copy(); newcen[0] = cen[0] - rowstart;
\* newcen[1] = cen[1] - rowstart
trim_newcen(cen, rowstart, colstart) ==
    <<cen[1] - 2 * rowstart, cen[2] - 2 * rowstart>>

\* _trim_psf(im, cen): the new image, the new centre, and the caller's cen
\* array after the call (newcen is a copy, so it is as it was)
trim_psf_image(im, shape, cen, dims) ==
    LET rowstart == trim_start(cen[1], dims[1])
        rowend == trim_end(cen[1], dims[1])
        colstart == trim_start(cen[2], dims[2])
        colend == trim_end(cen[2], dims[2])
    IN [im |-> slice_image(im, shape, rowstart, rowend, colstart, colend),
        cen |-> trim_newcen(cen, rowstart, colstart),
        cen_arg |-> cen]

\* lines 362-372 of _get_psf_image
get_psf_image(conf_trim, icut, cen) ==
    IF conf_trim.configured /\ icut > 0
    THEN trim_psf_image(StampImage, StampShape, cen, conf_trim.dims)
    ELSE [im |-> StampImage, cen |-> cen, cen_arg |-> cen]

NoTrim == [configured |-> FALSE, dims |-> <<0, 0>>]
NoPsfImage == [im |-> [q \in {} |-> <<0, 0>>], cen |-> <<0, 0>>, cen_arg |-> <<0, 0>>]

(***************************************************************************)
(* Idle values: what a specification leaves the other parts' variables at. *)
(***************************************************************************)
IdleExpand ==
    /\ bmask = Zeros(<<1, 1>>)
    /\ rounds = 0
    /\ cbmask = Zeros(<<1, 1>>)
    /\ bmask_after = Zeros(<<1, 1>>)

IdleReduce ==
    /\ im1 = Zeros(<<1, 1>>)
    /\ ignore_mask = 0
    /\ im1_reduced = Zeros(<<1, 1>>)

IdleMB ==
    /\ cls = "Y1"
    /\ conf = [propagate |-> FALSE, ignore_when_set_mask |-> 0,
               flag_y1_stellarhalo_masked |-> FALSE]
    /\ meds_bmask = [o \in Cutouts |-> Zeros(<<1, 1>>)]
    /\ cutout_cen = [o \in Cutouts |-> <<0, 0>>]
    /\ obs_flags = [o \in Cutouts |-> 0]
    /\ obs_seg = [o \in Cutouts |-> Zeros(<<1, 1>>)]
    /\ weight = [o \in Cutouts |-> Zeros(<<1, 1>>)]
    /\ bmasks = [b \in BandSet |-> Zeros(<<1, 1>>)]
    /\ obj_flags = [coadd |-> 0, mb |-> 0]
    /\ ran = [coadd_run |-> FALSE, prop |-> FALSE, halo |-> FALSE, halo_mb |-> FALSE]

IdleFlags ==
    /\ image_flags2check = 0
    /\ replacement_flags = FALSE
    /\ fit_coadd_galaxy = FALSE
    /\ meds_sizes_match = TRUE
    /\ image_info_flags = NoFlags
    /\ replacement_table = NoFlags
    /\ psf_world = [e \in {} |-> PsfLoaded]
    /\ has_replacement_flags = FALSE
    /\ replacement_reads = 0
    /\ image_flags_replaced = NoFlags
    /\ all_image_flags = NoFlags
    /\ psf_lists = [e \in {} |-> "None"]
    /\ psf_lookups = {}
    /\ psf_appends = <<>>

NoCall == [impath |-> <<>>, kind |-> "none", psf_obj |-> FALSE, flags |-> 0,
           touched |-> FALSE]

IdlePiff ==
    /\ allow_missing = FALSE
    /\ piff_summary = [e \in {} |-> MissingSummary]
    /\ piff_missing_models = {}
    /\ piff_info = [e \in {} |-> NoneInfo]
    /\ piff_reads = [e \in {} |-> 0]
    /\ piff_calls = 0
    /\ piff_last = NoCall

IdlePsf ==
    /\ psf_cls = "SV"
    /\ psf_type = "piff"
    /\ use_psf_rerun = FALSE
    /\ psfex_files = [e \in {} |-> "ok"]
    /\ blacklist_rows = NoFlags
    /\ psf_blacklist = {}
    /\ psf_error = "none"

NoWrapCall == [op |-> "none", rc |-> <<0, 0>>, was_requested |-> FALSE,
               drew |-> FALSE, cen |-> <<0, 0>>]

IdleWrap ==
    /\ stamp_size = 1
    /\ center_cache = NoCenters
    /\ n_draws = 0
    /\ rec_done = {}
    /\ rec_center = NoCenters
    /\ wrap_calls = 0
    /\ wrap_last = NoWrapCall

NoObsLists == [coadd_obs_list |-> <<>>, obs_list |-> <<>>]

IdleObs ==
    /\ image_type = "flux"
    /\ fitter_type = "galsim"
    /\ band_obs0 = NoObsLists
    /\ band_obs = NoObsLists

UnitJacobian == [dudrow |-> 1, dudcol |-> 0, dvdrow |-> 0, dvdcol |-> 1,
                 row0 |-> 0, col0 |-> 0]
NoNbrCall == [kind |-> "none", psf |-> "None", jac |-> UnitJacobian]

IdleNbr ==
    /\ coadd_image_exists = TRUE
    /\ read_me_wcs = FALSE
    /\ scamp_head_exists = TRUE
    /\ nbr_ncutout = 0
    /\ nbr_file_id = 0
    /\ uv_nbr = <<0, 0>>
    /\ cen_jac0 = UnitJacobian
    /\ wcs_transforms = [i \in {} |-> "None"]
    /\ cen_jac = UnitJacobian
    /\ nbr_result = NoNbrCall

IdleMap ==
    /\ map_lines = NoMapFile
    /\ psf_map = NoPsfMap
    /\ coadd_psf_map = <<>>
    /\ map_calls = 0
    /\ map_last = NoMapCall

IdleBadpix ==
    /\ extra_mask_flag_list = NoFlagList
    /\ propagate_star_flags = NoPropagateConf
    /\ extra_mask_flags = MaskUnset
    /\ ignore_when_set_mask = MaskUnset

IdleTrim ==
    /\ trim_psf = NoTrim
    /\ psf_icut = 0
    /\ psf_cen = <<0, 0>>
    /\ psf_image = NoPsfImage

(***************************************************************************)
(* SpecExpand                                                              *)
(***************************************************************************)
InitExpand ==
    /\ pc = "start"
    /\ bmask \in ExpInputs
    /\ rounds \in 0..MaxRounds
    /\ cbmask = Zeros(ExpShape)
    /\ bmask_after = bmask
    /\ IdleReduce
    /\ IdleMB
    /\ IdleFlags
    /\ IdlePiff
    /\ IdlePsf
    /\ IdleWrap
    /\ IdleObs
    /\ IdleNbr
    /\ IdleMap
    /\ IdleBadpix
    /\ IdleTrim

ExpandMask ==
    /\ pc = "start"
    /\ LET res == expand_mask(bmask, ExpShape, rounds)
       IN /\ cbmask' = res.ret
          /\ bmask_after' = res.arg
    /\ pc' = "expanded"
    /\ UNCHANGED <<bmask, rounds, reduceVars, mbVars, flagVars, piffVars, psfVars, wrapVars, obsVars, nbrVars, mapVars, badpixVars, trimVars>>

NextExpand == ExpandMask

SpecExpand == InitExpand /\ [][NextExpand]_vars

(***************************************************************************)
(* SpecReduce: the reduction of one source cutout, lines 1090-1107         *)
(***************************************************************************)
RedCols == 2

RedShape == <<1, RedCols>>

\* the pixel values and the ignore masks SpecReduce draws from
BmaskValues ==
    {SetSum(S) : S \in SUBSET {BADPIX_BPM, BADPIX_SATURATE, BADPIX_INTERP, BADPIX_STAR}}
IgnoreMasks == {SetSum(S) : S \in SUBSET {BADPIX_BPM, BADPIX_CRAY}}

InitReduce ==
    /\ pc = "start"
    /\ im1 \in [Pixels(RedShape) -> BmaskValues]
    /\ ignore_mask \in IgnoreMasks
    /\ im1_reduced = Zeros(RedShape)
    /\ IdleExpand
    /\ IdleMB
    /\ IdleFlags
    /\ IdlePiff
    /\ IdlePsf
    /\ IdleWrap
    /\ IdleObs
    /\ IdleNbr
    /\ IdleMap
    /\ IdleBadpix
    /\ IdleTrim

ReduceMask ==
    /\ pc = "start"
    /\ im1_reduced' = reduce_mask(im1, ignore_mask)
    /\ pc' = "reduced"
    /\ UNCHANGED <<im1, ignore_mask, expandVars, mbVars, flagVars, piffVars, psfVars, wrapVars, obsVars, nbrVars, mapVars, badpixVars, trimVars>>

NextReduce == ReduceMask

SpecReduce == InitReduce /\ [][NextReduce]_vars

(***************************************************************************)
(* _get_multi_band_observations                                            *)
(***************************************************************************)
\* the bmask value of the flagged pixel of a cutout.  A coadd: none,
\* STAR|SATURATE, or BPM alone.  A single-epoch cutout: none, STAR|SATURATE,
\* or STAR|SATURATE|BPM (which the ignore mask of the model, BPM, drops).
CoaddVals == {0, BADPIX_STAR + BADPIX_SATURATE, BADPIX_BPM}
SEVals == {0, BADPIX_STAR + BADPIX_SATURATE,
           BADPIX_STAR + BADPIX_SATURATE + BADPIX_BPM}
MaskVals == CoaddVals \cup SEVals
MaskValChoices ==
    {v \in [Cutouts -> MaskVals] :
        \A o \in Cutouts : v[o] \in (IF o[2] = 0 THEN CoaddVals ELSE SEVals)}

\* where the flagged pixel can be: a corner, the centre, two edges
HotPixels == {<<0, 0>>, <<1, 1>>, <<0, BoxSize - 1>>, <<BoxSize - 1, 1>>}

\* a bmask cutout with value v at pixel hp and 0 elsewhere
OnePixel(hp, v) == [p \in Pix |-> IF p = hp THEN v ELSE 0]

\* a seg cutout: the object itself at sp, a neighbour on the next column
\* (cyclically), sky elsewhere
SegImage(sp) ==
    [p \in Pix |-> IF p = sp THEN seg_number
                   ELSE IF p = <<sp[1], (sp[2] + 1) % BoxSize>> THEN nbr_number
                   ELSE 0]
SegChoices == {<<i, i>> : i \in 0..(BoxSize - 1)}

\* the weight map every observation starts with
InitWeight == [p \in Pix |-> 1 + ((p[1] + p[2]) % 2)]

\* the centre of the coadd cutouts, and the offsets of the single-epoch ones
CoaddCen == <<1, 1>>
Shifts == {<<0, 0>>, <<0, 1>>}

\* the flags of the observations: the coadds share theirs (they are flagged
\* together when the coadd is not fit), at most one single-epoch is flagged
FlagChoices ==
    {f \in [Cutouts -> {0, IMAGE_FLAGS_SET}] :
        /\ \A b \in BandSet : f[<<b, 0>>] = f[<<0, 0>>]
        /\ \E b \in BandSet : f[<<b, 1>>] = 0}

InitMBWith(classes, confs, hots, segs) ==
    /\ pc = "start"
    /\ cls \in classes
    /\ conf \in confs
    /\ \E hp \in hots, v \in MaskValChoices :
          meds_bmask = [o \in Cutouts |-> OnePixel(hp, v[o])]
    /\ \E sh \in Shifts :
          cutout_cen = [o \in Cutouts |->
                           IF o[2] = 0 THEN CoaddCen
                           ELSE IF o[1] = 0
                                THEN <<CoaddCen[1] + sh[1], CoaddCen[2] + sh[2]>>
                                ELSE <<CoaddCen[1] + sh[2], CoaddCen[2] + sh[1]>>]
    /\ obs_flags \in FlagChoices
    /\ \E sp \in segs : obs_seg = [o \in Cutouts |-> SegImage(sp)]
    /\ weight = [o \in Cutouts |-> InitWeight]
    /\ bmasks = [b \in BandSet |-> Zeros(BoxShape)]
    /\ obj_flags = [coadd |-> 0, mb |-> 0]
    /\ ran = [coadd_run |-> FALSE, prop |-> FALSE, halo |-> FALSE, halo_mb |-> FALSE]
    /\ IdleExpand
    /\ IdleReduce
    /\ IdleFlags
    /\ IdlePiff
    /\ IdlePsf
    /\ IdleWrap
    /\ IdleObs
    /\ IdleNbr
    /\ IdleMap
    /\ IdleBadpix
    /\ IdleTrim

\* Y1DESMEDSImageIO._get_multi_band_observations: the SV handler (which
\* records coadd_run), then the propagation and the stellar-halo check
Y1GetMultiBandObservations ==
    /\ pc = "start"
    /\ cls = "Y1"
    /\ LET bms == IF conf.propagate
                  THEN get_extra_bitmasks(meds_bmask, cutout_cen, obs_flags,
                                          conf.ignore_when_set_mask)
                  ELSE bmasks
           halo == flag_y1_stellarhalo_masked(meds_bmask, obs_flags, obs_seg)
           flags == IF conf.flag_y1_stellarhalo_masked THEN halo.flags ELSE 0
       IN /\ bmasks' = bms
          /\ weight' = IF conf.propagate
                       THEN prop_extra_bitmasks(bms, cutout_cen, obs_flags,
                                                obs_seg, weight)
                       ELSE weight
          /\ obj_flags' = [coadd |-> BitOr(obj_flags.coadd, flags),
                           mb |-> BitOr(obj_flags.mb, flags)]
          /\ ran' = [coadd_run |-> TRUE, prop |-> conf.propagate,
                     halo |-> conf.flag_y1_stellarhalo_masked,
                     halo_mb |-> conf.flag_y1_stellarhalo_masked /\ halo.mb_examined]
    /\ pc' = "returned"
    /\ UNCHANGED <<cls, conf, meds_bmask, cutout_cen, obs_flags, obs_seg,
                   expandVars, reduceVars, flagVars, piffVars, psfVars, wrapVars, obsVars, nbrVars, mapVars, badpixVars, trimVars>>

\* Y3DESMEDSImageIO._get_multi_band_observations: super(SVDESMEDSImageIO,
\* self) is the handler of the base reader, so neither the SV nor the Y1
\* handler runs
Y3GetMultiBandObservations ==
    /\ pc = "start"
    /\ cls = "Y3"
    /\ pc' = "returned"
    /\ UNCHANGED <<mbVars, expandVars, reduceVars, flagVars, piffVars, psfVars, wrapVars, obsVars, nbrVars, mapVars, badpixVars, trimVars>>

\* SpecMask: the Y1 reader with the propagation on
MaskConfs ==
    {[propagate |-> TRUE, ignore_when_set_mask |-> BADPIX_BPM,
      flag_y1_stellarhalo_masked |-> FALSE]}

InitMask == InitMBWith({"Y1"}, MaskConfs, HotPixels, SegChoices)

NextMask == Y1GetMultiBandObservations

SpecMask == InitMask /\ [][NextMask]_vars

\* SpecMB: both readers, every setting of the two options
MBConfs ==
    {[propagate |-> pr, ignore_when_set_mask |-> BADPIX_BPM,
      flag_y1_stellarhalo_masked |-> h] : pr \in BOOLEAN, h \in BOOLEAN}

InitMB == InitMBWith({"Y1", "Y3"}, MBConfs, {<<0, 0>>}, {<<0, 0>>})

NextMB == Y1GetMultiBandObservations \/ Y3GetMultiBandObservations

SpecMB == InitMB /\ [][NextMB]_vars

(***************************************************************************)
(* SpecHalo: Y1DESMEDSImageIO._get_multi_band_observations with the        *)
(* stellar-halo check switched on                                          *)
(***************************************************************************)
HaloConfs ==
    {[propagate |-> FALSE, ignore_when_set_mask |-> BADPIX_BPM,
      flag_y1_stellarhalo_masked |-> TRUE]}

InitHalo == InitMBWith({"Y1"}, HaloConfs, HotPixels, SegChoices)

NextHalo == Y1GetMultiBandObservations

SpecHalo == InitHalo /\ [][NextHalo]_vars

(***************************************************************************)
(* SpecFlags: the reader is constructed: _load_meds_files, then            *)
(* _load_psf_data (_get_psf_lists)                                         *)
(***************************************************************************)
MaxRawFlag == 2

\* the raw flags of a coadd and of a single-epoch image
CoaddRawFlags == {0, MaxRawFlag}
SERawFlags == 0..MaxRawFlag
CheckValues == {2, 3}

\* the replacement-flags files of the model
ReplacementTables ==
    { NoFlags,
      [e \in {<<0, 1>>} |-> 0],
      [e \in {<<0, 1>>, <<1, 1>>} |-> IF e[1] = 0 THEN 2 ELSE 1] }

\* every PSF loads, or all but one do
BadOutcomes == {PsfFlagged(PSF_IN_BLACKLIST), PsfMissingData}
PsfWorlds ==
    {[e \in Exposures |-> PsfLoaded]} \cup
    {[e \in Exposures |-> IF e = bad THEN k ELSE PsfLoaded] :
        bad \in Exposures, k \in BadOutcomes}

InitFlags ==
    /\ pc = "constructed"
    /\ image_flags2check \in CheckValues
    /\ replacement_flags \in BOOLEAN
    /\ fit_coadd_galaxy \in BOOLEAN
    /\ meds_sizes_match \in BOOLEAN
    /\ image_info_flags \in {f \in [Exposures -> SERawFlags] :
                                \A b \in BandSet : f[<<b, 0>>] \in CoaddRawFlags}
    /\ replacement_table \in (IF replacement_flags THEN ReplacementTables ELSE {NoFlags})
    /\ psf_world \in PsfWorlds
    /\ has_replacement_flags = FALSE
    /\ replacement_reads = 0
    /\ image_flags_replaced = NoFlags
    /\ all_image_flags = NoFlags
    /\ psf_lists = [e \in {} |-> "None"]
    /\ psf_lookups = {}
    /\ psf_appends = <<>>
    /\ IdleExpand
    /\ IdleReduce
    /\ IdleMB
    /\ IdlePiff
    /\ IdlePsf
    /\ IdleWrap
    /\ IdleObs
    /\ IdleNbr
    /\ IdleMap
    /\ IdleBadpix
    /\ IdleTrim

\* _load_meds_files
LoadMedsFiles ==
    /\ pc = "constructed"
    /\ LET r == load_meds_files(
                    [st |-> [has |-> has_replacement_flags, reads |-> replacement_reads],
                     replaced |-> NoFlags, all |-> NoFlags, raised |-> FALSE],
                    0, image_info_flags, replacement_table, image_flags2check,
                    replacement_flags, meds_sizes_match)
       IN /\ has_replacement_flags' = r.st.has
          /\ replacement_reads' = r.st.reads
          /\ image_flags_replaced' = r.replaced
          /\ all_image_flags' = r.all
          /\ pc' = IF r.raised THEN "raised" ELSE "meds_loaded"
    /\ UNCHANGED <<flagConfVars, psf_lists, psf_lookups, psf_appends, expandVars, reduceVars, mbVars, piffVars, psfVars, wrapVars, obsVars, nbrVars, mapVars, badpixVars, trimVars>>

\* _load_psf_data: self.psf_lists = self._get_psf_lists()
LoadPsfData ==
    /\ pc = "meds_loaded"
    /\ LET r == get_psf_lists(
                    [all |-> all_image_flags, psf |-> [e \in Exposures |-> "None"],
                     lookups |-> {}, appends |-> <<>>, raised |-> FALSE],
                    0, 0, psf_world, image_flags2check, fit_coadd_galaxy)
       IN /\ all_image_flags' = r.all
          /\ psf_lookups' = r.lookups
          /\ psf_appends' = r.appends
          /\ psf_lists' = IF r.raised THEN psf_lists ELSE r.psf
          /\ pc' = IF r.raised THEN "raised" ELSE "psf_loaded"
    /\ UNCHANGED <<flagConfVars, has_replacement_flags, replacement_reads,
                   image_flags_replaced, expandVars, reduceVars, mbVars, piffVars, psfVars, wrapVars, obsVars, nbrVars, mapVars, badpixVars, trimVars>>

NextFlags == LoadMedsFiles \/ LoadPsfData

SpecFlags == InitFlags /\ [][NextFlags]_vars

(***************************************************************************)
(* SpecPiff: a reader with PIFF PSFs is asked for the PSF of one image     *)
(* after another                                                           *)
(***************************************************************************)
MaxCalls == 2
MaxPiffFlag == 1

ExpNames == {"D00000001", "D00000002"}
CCDs == {1, ExcludedCCD}
ImPaths == ExpNames \X CCDs

InfoTables == UNION {[c -> 0..MaxPiffFlag] : c \in SUBSET CCDs}
MissingModelChoices == {{}, ImPaths, {<<"D00000001", 1>>}}

InitPiff ==
    /\ pc = "ready"
    /\ allow_missing \in BOOLEAN
    /\ piff_summary \in [ExpNames -> {MissingSummary} \cup {Summary(t) : t \in InfoTables}]
    /\ piff_missing_models \in MissingModelChoices
    /\ piff_info = [e \in {} |-> NoneInfo]
    /\ piff_reads = [e \in ExpNames |-> 0]
    /\ piff_calls = 0
    /\ piff_last = NoCall
    /\ IdleExpand
    /\ IdleReduce
    /\ IdleMB
    /\ IdleFlags
    /\ IdlePsf
    /\ IdleWrap
    /\ IdleObs
    /\ IdleNbr
    /\ IdleMap
    /\ IdleBadpix
    /\ IdleTrim

\* _get_piff_object(impath); an exception ends the reader
GetPiffObject ==
    /\ pc = "ready"
    /\ piff_calls < MaxCalls
    /\ \E impath \in ImPaths :
         LET r == get_piff_object(piff_info, piff_summary, allow_missing,
                                  piff_missing_models, impath)
         IN /\ piff_info' = r.cache
            /\ piff_reads' = [piff_reads EXCEPT ![impath_expname(impath)] =
                                 IF r.read THEN @ + 1 ELSE @]
            /\ piff_last' = [impath |-> impath, kind |-> r.kind, psf_obj |-> r.psf_obj,
                             flags |-> r.flags, touched |-> r.touched]
            /\ pc' = IF r.kind = "returned" THEN "ready" ELSE "raised"
    /\ piff_calls' = piff_calls + 1
    /\ UNCHANGED <<allow_missing, piff_summary, piff_missing_models,
                   expandVars, reduceVars, mbVars, flagVars, psfVars, wrapVars, obsVars, nbrVars, mapVars, badpixVars, trimVars>>

NextPiff == GetPiffObject

SpecPiff == InitPiff /\ [][NextPiff]_vars

(***************************************************************************)
(* SpecPsf: a reader is constructed with its PSF backend, all its images   *)
(* unflagged: __init__ of the class, the PSF loading of the base __init__, *)
(* and what follows it in __init__                                         *)
(***************************************************************************)
PsfexFileWorlds ==
    {[e \in Exposures |-> "ok"]} \cup
    {[e \in Exposures |-> IF e = bad THEN k ELSE "ok"] :
        bad \in Exposures, k \in {"missing", "corrupt"}}

\* the psfs.blacklist files of the model, keyed by image
BlacklistRowChoices ==
    { NoFlags,
      [e \in {<<0, 1>>} |-> 1],
      [e \in {<<0, 1>>, <<1, 1>>} |-> IF e[1] = 0 THEN 0 ELSE 1] }

InitPsf ==
    /\ pc = "new"
    /\ psf_cls \in {"SV", "Y3"}
    /\ psf_type \in {"piff", "psfex"}
    /\ use_psf_rerun \in BOOLEAN
    /\ allow_missing \in (IF psf_type = "piff" THEN BOOLEAN ELSE {FALSE})
    /\ piff_summary \in (IF psf_type = "piff"
                         THEN [ExpNames -> {MissingSummary} \cup {Summary(t) : t \in InfoTables}]
                         ELSE {[x \in ExpNames |-> MissingSummary]})
    /\ piff_missing_models \in (IF psf_type = "piff" THEN MissingModelChoices ELSE {{}})
    /\ piff_info = [e \in {} |-> NoneInfo]
    /\ piff_reads = [e \in {} |-> 0]
    /\ piff_calls = 0
    /\ piff_last = NoCall
    /\ psfex_files \in (IF psf_type = "psfex" THEN PsfexFileWorlds
                        ELSE {[e \in Exposures |-> "missing"]})
    /\ blacklist_rows \in (IF psf_type = "psfex" THEN BlacklistRowChoices ELSE {NoFlags})
    /\ psf_blacklist = {}
    /\ psf_error = "none"
    /\ image_flags2check \in CheckValues
    /\ replacement_flags = FALSE
    /\ fit_coadd_galaxy \in (IF psf_type = "psfex" THEN BOOLEAN ELSE {FALSE})
    /\ meds_sizes_match = TRUE
    /\ image_info_flags = [e \in Exposures |-> 0]
    /\ replacement_table = NoFlags
    /\ psf_world = psf_backend_world(psf_type, use_psf_rerun, psfex_files,
                                     piff_summary, allow_missing, piff_missing_models)
    /\ has_replacement_flags = FALSE
    /\ replacement_reads = 0
    /\ image_flags_replaced = [e \in Exposures |-> 0]
    /\ all_image_flags = [e \in Exposures |-> 0]
    /\ psf_lists = [e \in {} |-> "None"]
    /\ psf_lookups = {}
    /\ psf_appends = <<>>
    /\ IdleExpand
    /\ IdleReduce
    /\ IdleMB
    /\ IdleWrap
    /\ IdleObs
    /\ IdleNbr
    /\ IdleMap
    /\ IdleBadpix
    /\ IdleTrim

\* SVDESMEDSImageIO.__init__ up to the call of the base __init__
ConstructReader ==
    /\ pc = "new"
    /\ pc' = IF use_psf_rerun THEN "raised" ELSE "base_init"
    /\ psf_error' = IF use_psf_rerun THEN "RuntimeError" ELSE psf_error
    /\ UNCHANGED <<psfConfVars, psf_blacklist, expandVars, reduceVars, mbVars,
                   flagVars, piffVars, wrapVars, obsVars, nbrVars, mapVars, badpixVars, trimVars>>

\* the PSF loading of the base __init__: _load_psf_data
BaseInitLoadPsf ==
    /\ pc = "base_init"
    /\ LET r == get_psf_lists(
                    [all |-> all_image_flags, psf |-> [e \in Exposures |-> "None"],
                     lookups |-> {}, appends |-> <<>>, raised |-> FALSE],
                    0, 0, psf_world, image_flags2check, fit_coadd_galaxy)
       IN /\ all_image_flags' = r.all
          /\ psf_lookups' = r.lookups
          /\ psf_appends' = r.appends
          /\ psf_lists' = IF r.raised THEN psf_lists ELSE r.psf
          /\ psf_error' = IF r.raised
                          THEN psf_world[CHOOSE e \in r.lookups : psf_world[e].raises].error
                          ELSE psf_error
          /\ pc' = IF r.raised THEN "raised" ELSE "psf_loaded"
    /\ UNCHANGED <<flagConfVars, has_replacement_flags, replacement_reads,
                   image_flags_replaced, psfConfVars, psf_blacklist,
                   expandVars, reduceVars, mbVars, piffVars, wrapVars, obsVars, nbrVars, mapVars, badpixVars, trimVars>>

\* what follows the base __init__: for the Y3 reader, _load_psf_blacklist
FinishInit ==
    /\ pc = "psf_loaded"
    /\ pc' = "ready"
    /\ psf_blacklist' = IF psf_cls = "Y3" THEN load_psf_blacklist(blacklist_rows)
                        ELSE psf_blacklist
    /\ UNCHANGED <<psfConfVars, psf_error, expandVars, reduceVars, mbVars,
                   flagVars, piffVars, wrapVars, obsVars, nbrVars, mapVars, badpixVars, trimVars>>

NextPsf == ConstructReader \/ BaseInitLoadPsf \/ FinishInit

SpecPsf == InitPsf /\ [][NextPsf]_vars

(***************************************************************************)
(* SpecWrap: a PIFFWrapper serves get_rec and get_center calls             *)
(***************************************************************************)
MaxCoord == 1
MaxWrapCalls == 3

Coords == (0..MaxCoord) \X (0..MaxCoord)
StampSizes == {24, 25}

InitWrap ==
    /\ pc = "wrapped"
    /\ stamp_size \in StampSizes
    /\ center_cache = NoCenters
    /\ n_draws = 0
    /\ rec_done = {}
    /\ rec_center = NoCenters
    /\ wrap_calls = 0
    /\ wrap_last = NoWrapCall
    /\ IdleExpand
    /\ IdleReduce
    /\ IdleMB
    /\ IdleFlags
    /\ IdlePiff
    /\ IdlePsf
    /\ IdleObs
    /\ IdleNbr
    /\ IdleMap
    /\ IdleBadpix
    /\ IdleTrim

\* what a call that ran get_rec for rc leaves in the history
RecHistory(did_rec, rc, cache) ==
    /\ rec_done' = IF did_rec THEN rec_done \cup {rc} ELSE rec_done
    /\ rec_center' = IF did_rec /\ rc \notin rec_done
                     THEN [k \in rec_done \cup {rc} |->
                              IF k = rc THEN cache[get_center_cache_key(rc[1], rc[2])]
                              ELSE rec_center[k]]
                     ELSE rec_center

\* get_rec(row, col)
GetRec ==
    /\ pc = "wrapped"
    /\ wrap_calls < MaxWrapCalls
    /\ \E rc \in Coords :
         LET r == get_rec(center_cache, rc[1], rc[2], stamp_size)
         IN /\ center_cache' = r.cache
            /\ n_draws' = n_draws + r.draws
            /\ RecHistory(TRUE, rc, r.cache)
            /\ wrap_last' = [op |-> "get_rec", rc |-> rc,
                             was_requested |-> rc \in rec_done,
                             drew |-> r.draws > 0,
                             cen |-> r.cache[get_center_cache_key(rc[1], rc[2])]]
    /\ wrap_calls' = wrap_calls + 1
    /\ UNCHANGED <<pc, stamp_size, expandVars, reduceVars, mbVars, flagVars,
                   piffVars, psfVars, obsVars, nbrVars, mapVars, badpixVars, trimVars>>

\* get_center(row, col)
GetCenter ==
    /\ pc = "wrapped"
    /\ wrap_calls < MaxWrapCalls
    /\ \E rc \in Coords :
         LET r == get_center(center_cache, rc[1], rc[2], stamp_size)
         IN /\ center_cache' = r.cache
            /\ n_draws' = n_draws + r.draws
            /\ RecHistory(r.draws > 0, rc, r.cache)
            /\ wrap_last' = [op |-> "get_center", rc |-> rc,
                             was_requested |-> rc \in rec_done,
                             drew |-> r.draws > 0, cen |-> r.cen]
    /\ wrap_calls' = wrap_calls + 1
    /\ UNCHANGED <<pc, stamp_size, expandVars, reduceVars, mbVars, flagVars,
                   piffVars, psfVars, obsVars, nbrVars, mapVars, badpixVars, trimVars>>

NextWrap == GetRec \/ GetCenter

SpecWrap == InitWrap /\ [][NextWrap]_vars

(***************************************************************************)
(* SpecBandObs: _get_band_observations on a coadd list and an epoch list   *)
(* of one observation each                                                 *)
(***************************************************************************)
MaxScale == 2

\* image values are multiples of every pixel_scale2 and weight values of
\* every pixel_scale4 of the model
RECURSIVE ScaleProduct(_)
ScaleProduct(n) == IF n = 0 THEN 1 ELSE n * ScaleProduct(n - 1)
ImageUnit == pixel_scale2(ScaleProduct(MaxScale))
WeightUnit == pixel_scale4(ScaleProduct(MaxScale))

WeightMaps == {<<0, 0>>, <<0, 0 - WeightUnit>>, <<0, WeightUnit>>,
               <<WeightUnit, 2 * WeightUnit>>}
ExtraWeights == {<<None, None>>, <<<<WeightUnit, WeightUnit>>, None>>,
                 <<<<0, WeightUnit>>, <<WeightUnit, 0>>>>}
ObsChoices ==
    {[flags |-> f, scale |-> sc, image |-> <<0 - ImageUnit, 3 * ImageUnit>>,
      weight |-> w, weight_raw |-> x[1], weight_us |-> x[2]] :
        f \in {0, 1}, sc \in 1..MaxScale, w \in WeightMaps, x \in ExtraWeights}

InitBandObs ==
    /\ pc = "base_done"
    /\ image_type \in {"surface_brightness", "flux"}
    /\ fitter_type \in {"galsim", "metacal-galsim", "max"}
    /\ band_obs0 \in {[coadd_obs_list |-> <<c>>, obs_list |-> <<o>>] :
                         c \in ObsChoices, o \in ObsChoices}
    /\ band_obs = band_obs0
    /\ IdleExpand
    /\ IdleReduce
    /\ IdleMB
    /\ IdleFlags
    /\ IdlePiff
    /\ IdlePsf
    /\ IdleWrap
    /\ IdleNbr
    /\ IdleMap
    /\ IdleBadpix
    /\ IdleTrim

\* _get_band_observations, after the call of the base class
GetBandObservations ==
    /\ pc = "base_done"
    /\ band_obs' = get_band_observations(image_type, fitter_type, band_obs)
    /\ pc' = "band_done"
    /\ UNCHANGED <<image_type, fitter_type, band_obs0, expandVars, reduceVars,
                   mbVars, flagVars, piffVars, psfVars, wrapVars, nbrVars, mapVars, badpixVars, trimVars>>

NextBandObs == GetBandObservations

SpecBandObs == InitBandObs /\ [][NextBandObs]_vars

(***************************************************************************)
(* SpecNbr: the WCS of a band is loaded from the original files, then an   *)
(* off-chip neighbour is placed                                            *)
(***************************************************************************)
MaxNcutout == 2

\* the matrices of the central's Jacobian: dudrow, dudcol, dvdrow, dvdcol
JacMatrices == {<<1, 0, 0, 1>>, <<0, 1, 1, 0>>, <<1, 1, 0, 1>>, <<2, 0, 0, 2>>,
                <<1, 1, 1, 1>>}
JacCenters == {<<0, 0>>, <<5, 7>>}
Jacobians ==
    {[dudrow |-> m[1], dudcol |-> m[2], dvdrow |-> m[3], dvdcol |-> m[4],
      row0 |-> c[1], col0 |-> c[2]] : m \in JacMatrices, c \in JacCenters}
UVOffsets == {<<0, 0>>, <<4, 0 - 8>>, <<0 - 4, 12>>}

InitNbr ==
    /\ pc = "nbr_start"
    /\ coadd_image_exists \in BOOLEAN
    /\ read_me_wcs \in BOOLEAN
    /\ scamp_head_exists \in BOOLEAN
    /\ nbr_ncutout \in 0..MaxNcutout
    /\ nbr_file_id \in {coadd_file_id, se_file_id}
    /\ uv_nbr \in UVOffsets
    /\ cen_jac0 \in Jacobians
    /\ wcs_transforms = [i \in {} |-> "None"]
    /\ cen_jac = cen_jac0
    /\ nbr_result = NoNbrCall
    /\ IdleExpand
    /\ IdleReduce
    /\ IdleMB
    /\ IdleFlags
    /\ IdlePiff
    /\ IdlePsf
    /\ IdleWrap
    /\ IdleObs
    /\ IdleMap
    /\ IdleBadpix
    /\ IdleTrim

\* _load_wcs_from_files
LoadWcsFromFiles ==
    /\ pc = "nbr_start"
    /\ wcs_transforms' = load_wcs_from_files(coadd_image_exists, read_me_wcs,
                                             scamp_head_exists)
    /\ pc' = "wcs_loaded"
    /\ UNCHANGED <<nbrConfVars, cen_jac, nbr_result, expandVars, reduceVars, mbVars,
                   flagVars, piffVars, psfVars, wrapVars, obsVars, mapVars, badpixVars, trimVars>>

\* _get_offchip_nbr_psf_obs_and_jac for the central and one neighbour
GetOffchipNbr ==
    /\ pc = "wcs_loaded"
    /\ LET r == get_offchip_nbr_psf_obs_and_jac(wcs_transforms, nbr_ncutout,
                                                nbr_file_id, uv_nbr, cen_jac)
       IN /\ nbr_result' = [kind |-> r.kind, psf |-> r.psf, jac |-> r.jac]
          /\ cen_jac' = r.cen_jac
          /\ pc' = IF r.kind = "returned" THEN "nbr_returned" ELSE "raised"
    /\ UNCHANGED <<nbrConfVars, wcs_transforms, expandVars, reduceVars, mbVars,
                   flagVars, piffVars, psfVars, wrapVars, obsVars, mapVars, badpixVars, trimVars>>

NextNbr == LoadWcsFromFiles \/ GetOffchipNbr

SpecNbr == InitNbr /\ [][NextNbr]_vars

(***************************************************************************)
(* SpecPsfMap: a Y3 reader loading its PSF map, then resolving the PSF     *)
(* path of one image after another                                         *)
(***************************************************************************)
MaxMapLines == 2
MaxMapCalls == 2

MapExpNums == {5, 233601}
MapCcdNums == {1, 10}

\* the pattern the i-th line of the map file carries
MapPattern(i) == <<"p">> \o DecDigits(i)

Join3(a, b, c) == a \o <<" ">> \o b \o <<" ">> \o c

\* the kinds of line a map file holds: a DESDM-style line of an exposure
\* and a detector, written plainly or with leading zeros, the coadd entry,
\* a standard two-column line, a badly formatted line
MapLineKinds ==
    {[kind |-> "desdm", expnum |-> e, ccdnum |-> c] :
        e \in MapExpNums, c \in MapCcdNums}
    \cup {[kind |-> k, expnum |-> 5, ccdnum |-> 1] :
            k \in {"desdm0", "coadd", "standard", "bad"}}

MapLine(k, i) ==
    CASE k.kind = "desdm" ->
            Join3(format_d(k.expnum), format_d(k.ccdnum), MapPattern(i))
      [] k.kind = "desdm0" ->
            Join3(<<"0">> \o format_d(k.expnum), <<"0">> \o format_d(k.ccdnum),
                  MapPattern(i))
      [] k.kind = "coadd" ->
            Join3(format_d(COADD_EXPNUM), format_d(COADD_EXPNUM), MapPattern(i))
      [] k.kind = "standard" ->
            <<"D", "5", "-", "1">> \o <<" ">> \o MapPattern(i)
      [] OTHER -> MapPattern(i)

MapFiles ==
    {NoMapFile} \cup
    UNION {{[given |-> TRUE, lines |-> [i \in 1..n |-> MapLine(ks[i], i)]] :
               ks \in [1..n -> MapLineKinds]} : n \in 0..MaxMapLines}

\* the path of the image of exposure e on detector c, as DESDM names its
\* files: the exposure number in eight digits, the detector in two
DesdmImagePath(e, c, style) ==
    LET expname == <<"D">> \o format_0d(8, e)
        ccd == <<"c">> \o format_0d(2, c)
    IN IF style = "DES"
       THEN <<"d", "/", "D", "E", "S", "1", "_", "r", "_">> \o expname
            \o <<"_", "x", "_">> \o ccd \o <<"_", "i">>
       ELSE <<"d", "/">> \o expname \o <<"_", "r", "_">> \o ccd \o <<"_", "i">>

\* a file name that does not pad the detector number
OddImagePath == <<"d", "/", "D", "0", "0", "0", "0", "0", "0", "0", "5",
                  "_", "r", "_", "c", "1", "_", "i">>

MapImagePaths ==
    {DesdmImagePath(e, c, st) :
        e \in MapExpNums, c \in MapCcdNums, st \in {"DES", "plain"}}
    \cup {OddImagePath}

InitPsfMap ==
    /\ pc = "start"
    /\ map_lines \in MapFiles
    /\ psf_map = NoPsfMap
    /\ coadd_psf_map = <<>>
    /\ map_calls = 0
    /\ map_last = NoMapCall
    /\ IdleExpand
    /\ IdleReduce
    /\ IdleMB
    /\ IdleFlags
    /\ IdlePiff
    /\ IdlePsf
    /\ IdleWrap
    /\ IdleObs
    /\ IdleNbr
    /\ IdleBadpix
    /\ IdleTrim

\* Y3DESMEDSImageIO._load_psf_map
LoadPsfMap ==
    /\ pc = "start"
    /\ LET done == load_psf_map(map_lines)
       IN /\ psf_map' = (IF done.error = "none" THEN done.psf_map ELSE psf_map)
          /\ coadd_psf_map' = (IF done.error = "none" THEN done.coadd_psf_map
                               ELSE coadd_psf_map)
          /\ pc' = (IF done.error = "none" THEN "loaded" ELSE done.error)
    /\ UNCHANGED <<map_lines, map_calls, map_last, expandVars, reduceVars, mbVars,
                   flagVars, piffVars, psfVars, wrapVars, obsVars, nbrVars, badpixVars, trimVars>>

\* Y3DESMEDSImageIO._psf_path_from_image_path
PsfPathFromImagePath ==
    /\ pc = "loaded"
    /\ map_calls < MaxMapCalls
    /\ \E image_path \in MapImagePaths :
          LET got == psf_path_from_image_path(psf_map, image_path)
          IN map_last' = [image_path |-> image_path, kind |-> got.kind,
                          path |-> got.path]
    /\ map_calls' = map_calls + 1
    /\ UNCHANGED <<pc, map_lines, psf_map, coadd_psf_map, expandVars, reduceVars,
                   mbVars, flagVars, piffVars, psfVars, wrapVars, obsVars, nbrVars, badpixVars, trimVars>>

NextPsfMap == LoadPsfMap \/ PsfPathFromImagePath

SpecPsfMap == InitPsfMap /\ [][NextPsfMap]_vars

(***************************************************************************)
(* SpecBadpix: the constructor of a Y1 reader building its two masks:      *)
(* _set_propagate_saturated_stars, then _set_extra_mask_flags              *)
(***************************************************************************)
MaxFlagNames == 2

\* the flag names the configured lists of the model draw on
ListedFlagNames == {"BPM", "SATURATE", "STAR", "SUSPECT"}

FlagLists ==
    UNION {[1..n -> ListedFlagNames] : n \in 0..MaxFlagNames}

InitBadpix ==
    /\ pc = "start"
    /\ extra_mask_flag_list \in
          {NoFlagList} \cup {[given |-> TRUE, names |-> l] : l \in FlagLists}
    /\ propagate_star_flags \in
          {NoPropagateConf} \cup
          {[given |-> TRUE, propagate |-> pr, ignore_when_set |-> l] :
              pr \in BOOLEAN, l \in FlagLists}
    /\ extra_mask_flags = MaskUnset
    /\ ignore_when_set_mask = MaskUnset
    /\ IdleExpand
    /\ IdleReduce
    /\ IdleMB
    /\ IdleFlags
    /\ IdlePiff
    /\ IdlePsf
    /\ IdleWrap
    /\ IdleObs
    /\ IdleNbr
    /\ IdleMap
    /\ IdleTrim

\* Y1DESMEDSImageIO._set_propagate_saturated_stars, called by
\* Y1DESMEDSImageIO._set_defaults while the base constructor runs
SetPropagateSaturatedStars ==
    /\ pc = "start"
    /\ LET done == set_propagate_saturated_stars(propagate_star_flags,
                                                 ignore_when_set_mask)
       IN /\ propagate_star_flags' = done.pconf
          /\ ignore_when_set_mask' = done.mask
    /\ pc' = "defaults_set"
    /\ UNCHANGED <<extra_mask_flag_list, extra_mask_flags,
                   expandVars, reduceVars, mbVars, flagVars, piffVars, psfVars,
                   wrapVars, obsVars, nbrVars, mapVars, trimVars>>

\* SVDESMEDSImageIO._set_extra_mask_flags, called by
\* SVDESMEDSImageIO.__init__ after the base constructor
SetExtraMaskFlags ==
    /\ pc = "defaults_set"
    /\ extra_mask_flags' = set_extra_mask_flags(extra_mask_flag_list, extra_mask_flags)
    /\ pc' = "ready"
    /\ UNCHANGED <<extra_mask_flag_list, propagate_star_flags, ignore_when_set_mask,
                   expandVars, reduceVars, mbVars, flagVars, piffVars, psfVars,
                   wrapVars, obsVars, nbrVars, mapVars, trimVars>>

NextBadpix == SetPropagateSaturatedStars \/ SetExtraMaskFlags

SpecBadpix == InitBadpix /\ [][NextBadpix]_vars

(***************************************************************************)
(* SpecTrim: _get_psf_image on a PSF object whose image is the stamp       *)
(***************************************************************************)
MaxTrimDim == 4

\* conf['trim_psf']['dims']
TrimDims == (2..MaxTrimDim) \X (2..MaxTrimDim)

\* the centres psf_obj.get_center gives, in half pixels: 2.0, 2.5 and 3.0
PsfCenters == {4, 5, 6} \X {4, 5, 6}

InitTrim ==
    /\ pc = "start"
    /\ trim_psf \in {NoTrim} \cup {[configured |-> TRUE, dims |-> d] : d \in TrimDims}
    /\ psf_icut \in 0..1
    /\ psf_cen \in PsfCenters
    /\ psf_image = NoPsfImage
    /\ IdleExpand
    /\ IdleReduce
    /\ IdleMB
    /\ IdleFlags
    /\ IdlePiff
    /\ IdlePsf
    /\ IdleWrap
    /\ IdleObs
    /\ IdleNbr
    /\ IdleMap
    /\ IdleBadpix

\* SVDESMEDSImageIO._get_psf_image(band, mindex, icut)
GetPsfImage ==
    /\ pc = "start"
    /\ psf_image' = get_psf_image(trim_psf, psf_icut, psf_cen)
    /\ psf_cen' = get_psf_image(trim_psf, psf_icut, psf_cen).cen_arg
    /\ pc' = "returned"
    /\ UNCHANGED <<trim_psf, psf_icut, expandVars, reduceVars, mbVars, flagVars,
                   piffVars, psfVars, wrapVars, obsVars, nbrVars, mapVars, badpixVars>>

NextTrim == GetPsfImage

SpecTrim == InitTrim /\ [][NextTrim]_vars

(***************************************************************************)
(* Claims                                                                  *)
(***************************************************************************)
\* Chebyshev distance of two pixels
Cheb(p, q) ==
    LET d1 == IF p[1] >= q[1] THEN p[1] - q[1] ELSE q[1] - p[1]
        d2 == IF p[2] >= q[2] THEN p[2] - q[2] ELSE q[2] - p[2]
    IN IF d1 >= d2 THEN d1 ELSE d2

SEObs == {o \in Cutouts : o[2] # 0}

\* the pixel of cutout o that lies at the same place on the sky as pixel q
\* of the coadd cutout of band b
FromCoadd(b, q, o) ==
    <<q[1] - cutout_cen[<<b, 0>>][1] + cutout_cen[o][1],
      q[2] - cutout_cen[<<b, 0>>][2] + cutout_cen[o][2]>>

\* the combined mask of o's band, reprojected into cutout o and dilated by
\* two rounds, is nonzero at pixel p
MaskNear(o, p) ==
    \E q \in Pix :
        /\ bmasks[o[1]][q] # 0
        /\ FromCoadd(o[1], q, o) \in Pix
        /\ Cheb(p, FromCoadd(o[1], q, o)) <= 2

\* C1 as amended: in _prop_extra_bitmasks, for every unflagged cutout of the
\* multi-epoch bundle and every pixel: if the band's combined mask,
\* reprojected into the cutout and dilated by 2 rounds, is nonzero at the
\* pixel and the seg value there is 0 (no object claims the pixel), the
\* weight becomes exactly 0; if the seg value is nonzero (the object's own
\* id or another object's), the weight is unchanged whatever the mask.
C1_WeightZeroedWhereSegIsSky ==
    (pc = "returned" /\ ran.prop) =>
        \A o \in SEObs : obs_flags[o] = 0 =>
            \A p \in Pix :
                /\ (MaskNear(o, p) /\ obs_seg[o][p] = 0) => weight[o][p] = 0
                /\ obs_seg[o][p] # 0 => weight[o][p] = InitWeight[p]

\* C1 as stated: the weight becomes 0 wherever the dilated mask is nonzero
\* and the seg value is not the object's own id, and is unchanged where the
\* seg value is the object's own id.
C1_AsStated ==
    (pc = "returned" /\ ran.prop) =>
        \A o \in SEObs : obs_flags[o] = 0 =>
            \A p \in Pix :
                /\ (MaskNear(o, p) /\ obs_seg[o][p] # seg_number) => weight[o][p] = 0
                /\ obs_seg[o][p] = seg_number => weight[o][p] = InitWeight[p]

\* a masked sky pixel was zeroed while a masked pixel of the object and a
\* masked pixel of its neighbour kept their weights
C1_Witness ==
    /\ pc = "returned"
    /\ ran.prop
    /\ \E o \in SEObs :
          /\ obs_flags[o] = 0
          /\ \E p \in Pix : MaskNear(o, p) /\ obs_seg[o][p] = 0 /\ weight[o][p] = 0
          /\ \E p \in Pix : /\ MaskNear(o, p)
                            /\ obs_seg[o][p] = seg_number
                            /\ weight[o][p] = InitWeight[p]
          /\ \E p \in Pix : /\ MaskNear(o, p)
                            /\ obs_seg[o][p] = nbr_number
                            /\ weight[o][p] = InitWeight[p]

\* C2: end to end, with every observation unflagged, when the coadd bmask
\* of band 0 has one pixel with STAR and SATURATE set (and no ignore-mask
\* bit), the single-epoch cutouts of both bands have zero weight within two
\* dilation steps of the place that pixel reprojects to.  The claim exempts
\* the pixels of the object's own segmentation; it is stated here for the
\* pixels that no object claims (seg = 0), where C1 plays no part.
C2_EndToEnd ==
    (/\ pc = "returned"
     /\ ran.prop
     /\ \A o \in Cutouts : obs_flags[o] = 0) =>
        \A hp \in Pix :
            meds_bmask[<<0, 0>>] = OnePixel(hp, BADPIX_STAR + BADPIX_SATURATE) =>
                \A o \in SEObs : \A p \in Pix :
                    (/\ FromCoadd(0, hp, o) \in Pix
                     /\ Cheb(p, FromCoadd(0, hp, o)) <= 2
                     /\ obs_seg[o][p] = 0) => weight[o][p] = 0

\* the bits a pixel value must and must not carry to be kept
KeptByRule(v, msk) ==
    /\ (BADPIX_SATURATE \in Bits(v) \/ BADPIX_INTERP \in Bits(v))
    /\ BADPIX_STAR \in Bits(v)
    /\ Bits(v) \cap Bits(msk) = {}

\* C3: before reprojection the source mask is a 0/1 image in which a pixel
\* is 1 if and only if its bmask value has (SATURATE or INTERP) set, and
\* STAR set, and no bit of ignore_when_set_mask set.
C3_MaskReduction ==
    pc = "reduced" =>
        \A p \in DOMAIN im1 :
            im1_reduced[p] = (IF KeptByRule(im1[p], ignore_mask) THEN 1 ELSE 0)

\* one pixel is kept, one saturated star pixel is dropped for an ignore bit,
\* and one saturated pixel is dropped for want of the STAR bit
C3_Witness ==
    /\ pc = "reduced"
    /\ ignore_mask = BADPIX_BPM
    /\ \E p, q \in DOMAIN im1 :
          /\ im1[p] = BADPIX_STAR + BADPIX_INTERP /\ im1_reduced[p] = 1
          /\ im1[q] = BADPIX_STAR + BADPIX_SATURATE + BADPIX_BPM /\ im1_reduced[q] = 0

\* C4: _expand_mask(bmask, rounds=r) returns an array in which a pixel is
\* nonzero if and only if it lies within Chebyshev distance r of a nonzero
\* pixel of the input, clipped at the array bounds; the input array is not
\* modified.
C4_ExpandMask ==
    pc = "expanded" =>
        /\ DOMAIN cbmask = Pixels(ExpShape)
        /\ \A p \in Pixels(ExpShape) :
              cbmask[p] # 0 <=>
                  \E q \in Pixels(ExpShape) : bmask[q] # 0 /\ Cheb(p, q) <= rounds
        /\ bmask_after = bmask

\* a single flagged pixel in the middle grew to its 5x5 neighbourhood in two
\* rounds
C4_Witness ==
    /\ pc = "expanded"
    /\ rounds = 2
    /\ Nonzero(bmask) = {<<2, 2>>}
    /\ Nonzero(cbmask) = (0..4) \X (0..4)

\* C5: for the Y1 and the Y3 reader alike, _get_multi_band_observations has
\* run the bitmask propagation when propagate_star_flags.propagate is true,
\* and the stellar-halo check when flag_y1_stellarhalo_masked is true, by
\* the time it returns.
C5_OptionsHonoured ==
    pc = "returned" =>
        /\ conf.propagate => ran.prop
        /\ conf.flag_y1_stellarhalo_masked => ran.halo

SEExposures == {e \in Exposures : e[2] >= 1}
PsfFlagBits == {PSF_IN_BLACKLIST, PSF_MISSING_S2N, PSF_LOW_S2N}

C7_ReductionRule ==
    pc = "meds_loaded" =>
       \A e \in SEExposures :
          /\ ~replacement_flags => image_flags_replaced[e] = image_info_flags[e]
          /\ all_image_flags[e] =
                IF Bits(image_flags_replaced[e]) \cap Bits(image_flags2check) # {}
                THEN IMAGE_FLAGS_SET ELSE 0

C7_Witness ==
    /\ pc = "meds_loaded"
    /\ \E e \in SEExposures : all_image_flags[e] = IMAGE_FLAGS_SET
    /\ \E e \in SEExposures : image_flags_replaced[e] # 0 /\ all_image_flags[e] = 0

\* C8: _load_meds_files leaves the flag of the coadd (index 0) of every band
\* as image_info gives it, through the replacement and the reduction; and
\* when fit_coadd_galaxy is false, _get_psf_objects sets the IMAGE_FLAGS_SET
\* bit in the coadd's entry of every band, looks no PSF up for it and leaves
\* its PSF None.
C8_CoaddExempt ==
    /\ pc = "meds_loaded" =>
          \A b \in BandSet :
             /\ image_flags_replaced[<<b, 0>>] = image_info_flags[<<b, 0>>]
             /\ all_image_flags[<<b, 0>>] = image_info_flags[<<b, 0>>]
    /\ pc = "psf_loaded" /\ ~fit_coadd_galaxy =>
          \A b \in BandSet :
             /\ IMAGE_FLAGS_SET \in Bits(all_image_flags[<<b, 0>>])
             /\ Bits(all_image_flags[<<b, 0>>]) \ {IMAGE_FLAGS_SET}
                   = Bits(image_info_flags[<<b, 0>>]) \ {IMAGE_FLAGS_SET}
             /\ psf_lists[<<b, 0>>] = "None"
             /\ <<b, 0>> \notin psf_lookups

C8_Witness ==
    /\ pc = "psf_loaded"
    /\ ~fit_coadd_galaxy
    /\ replacement_flags
    /\ image_info_flags[<<0, 0>>] # 0
    /\ image_info_flags[<<1, 0>>] = 0
    /\ psf_lookups # {}

\* C9: with replacement_flags configured, _load_meds_files gives every
\* non-coadd exposure the flag the replacement table holds for its image
\* path, and image_flags2check where the table has no entry for it; the
\* lookup raises nothing, and the table is read at most once.
C9_ReplacementFlags ==
    /\ replacement_reads <= 1
    /\ replacement_flags /\ meds_sizes_match /\ pc # "constructed" =>
          /\ DOMAIN all_image_flags = Exposures
          /\ replacement_reads = 1
          /\ \A e \in SEExposures :
                image_flags_replaced[e] =
                   IF e \in DOMAIN replacement_table THEN replacement_table[e]
                   ELSE image_flags2check

C9_Witness ==
    /\ pc = "meds_loaded"
    /\ replacement_flags
    /\ \E e \in SEExposures :
          e \in DOMAIN replacement_table /\ replacement_table[e] # image_info_flags[e]
    /\ \E e \in SEExposures :
          /\ e \notin DOMAIN replacement_table
          /\ image_info_flags[e] # image_flags2check
          /\ image_flags_replaced[e] = image_flags2check

\* whether the info table of the image's exposure has a record that
\* _get_piff_object rejects, or the exposure has no table and that is allowed
PiffBlacklisted(impath) ==
    LET f == piff_summary[impath[1]]
    IN IF ~f.exists THEN allow_missing
       ELSE /\ impath[2] \in DOMAIN f.table
            /\ (f.table[impath[2]] # 0 \/ impath[2] = ExcludedCCD)

\* C10: _get_piff_object returns (None, PSF_IN_BLACKLIST), raising nothing
\* and touching no model file, exactly when the exposure has no record
\* because its summary is missing and that is allowed, or the record's flag
\* is nonzero, or the record's ccdnum is 31; in every other case it returns
\* a loaded model with flags 0, or raises.
C10_PiffObject ==
    piff_last.kind # "none" =>
       LET rejected == /\ piff_last.kind = "returned"
                       /\ ~piff_last.psf_obj
                       /\ piff_last.flags = PSF_IN_BLACKLIST
                       /\ ~piff_last.touched
       IN /\ rejected <=> PiffBlacklisted(piff_last.impath)
          /\ ~rejected =>
                \/ piff_last.kind = "returned" /\ piff_last.psf_obj /\ piff_last.flags = 0
                \/ piff_last.kind \in {"RuntimeError", "MissingDataError"}

C10_Witness ==
    /\ piff_last.kind = "returned"
    /\ piff_last.flags = PSF_IN_BLACKLIST
    /\ piff_last.impath[2] = ExcludedCCD
    /\ piff_summary[piff_last.impath[1]].exists
    /\ piff_summary[piff_last.impath[1]].table[ExcludedCCD] = 0
    /\ piff_last.impath \notin piff_missing_models

\* C11: when the summary file of the exposure does not exist,
\* _read_piff_exp_info gives None if allow_missing is true: the exposure is
\* skipped (no model, the reader goes on to further images) and None is what
\* the cache holds for it; if allow_missing is false a RuntimeError ends the
\* reader and the cache holds nothing for the exposure.  There is no other
\* outcome.
C11_MissingSummary ==
    LET expname == piff_last.impath[1]
    IN piff_last.kind # "none" /\ ~piff_summary[expname].exists =>
          IF allow_missing
          THEN /\ piff_last.kind = "returned"
               /\ ~piff_last.psf_obj
               /\ pc = "ready"
               /\ expname \in DOMAIN piff_info
               /\ piff_info[expname] = NoneInfo
          ELSE /\ piff_last.kind = "RuntimeError"
               /\ pc = "raised"
               /\ expname \notin DOMAIN piff_info

C11_Witness ==
    /\ piff_calls = 2
    /\ piff_last.kind = "returned"
    /\ piff_last.psf_obj
    /\ \E expname \in DOMAIN piff_info :
          ~piff_summary[expname].exists /\ piff_info[expname] = NoneInfo

\* whether the backend has no gating flag for image e, and whether the model
\* file of e is missing
NoGate(e) ==
    IF psf_type = "piff"
    THEN LET f == piff_summary[ExposureImPath(e)[1]]
             ccd == ExposureImPath(e)[2]
         IN f.exists /\ ccd \in DOMAIN f.table /\ f.table[ccd] = 0 /\ ccd # ExcludedCCD
    ELSE TRUE
ModelMissing(e) ==
    IF psf_type = "piff" THEN ExposureImPath(e) \in piff_missing_models
    ELSE psfex_files[e] = "missing"

\* C12: with either backend, an image whose PSF is looked up, that has no
\* gating flag and whose model file does not exist, ends the loading in
\* MissingDataError (not the RuntimeError of a configuration error),
\* whatever allow_missing is; and no entry of all_image_flags ever holds
\* PSF_FILE_READ_ERROR.
C12_MissingModelFatal ==
    /\ \A e \in psf_lookups :
          NoGate(e) /\ ModelMissing(e) =>
             pc = "raised" /\ psf_error = "MissingDataError"
    /\ \A e \in DOMAIN all_image_flags :
          PSF_FILE_READ_ERROR \notin Bits(all_image_flags[e])

C12_WitnessPiff ==
    /\ psf_type = "piff"
    /\ allow_missing
    /\ psf_error = "MissingDataError"

C12_Witness ==
    /\ psf_type = "psfex"
    /\ psf_error = "MissingDataError"
    /\ \E e \in psf_lookups : e[2] >= 1 /\ psfex_files[e] = "missing"

\* C13: in a reader of the PSFEx backend with rerun gating active
\* (use_psf_rerun), the gating raises nothing: the reader is constructed and
\* its PSF loading ends in no RuntimeError or AttributeError, and a
\* single-epoch image the gating fails has no model and a sentinel flag
\* (PSF_IN_BLACKLIST, PSF_MISSING_S2N or PSF_LOW_S2N) in all_image_flags.
C13_GatingSentinels ==
    psf_type = "psfex" /\ use_psf_rerun /\ pc # "new" =>
       /\ psf_error \notin {"RuntimeError", "AttributeError"}
       /\ \A e \in psf_lookups :
             e[2] >= 1 /\ psf_world[e].flags # 0 =>
                /\ psf_world[e].flags \in PsfFlagBits
                /\ pc # "raised" => psf_lists[e] = "None"

\* C14: with the PSFEx backend, in a constructed reader, every image whose
\* key the loaded blacklist holds (bflags nonzero) has PSF_IN_BLACKLIST set
\* in all_image_flags and None in psf_lists.
C14_BlacklistGates ==
    pc = "ready" /\ psf_type = "psfex" =>
       \A e \in psf_blacklist :
          /\ PSF_IN_BLACKLIST \in Bits(all_image_flags[e])
          /\ psf_lists[e] = "None"

\* C15: a get_center(r, c) that comes, anywhere later in the sequence of
\* calls, after a get_rec(r, c) makes no reconstruction and returns the
\* centre that get_rec cached; and a further get_rec(r, c) leaves the cached
\* centre what the first one made it.
C15_CachedCenter ==
    wrap_last.op # "none" /\ wrap_last.was_requested =>
       /\ wrap_last.cen = rec_center[wrap_last.rc]
       /\ wrap_last.op = "get_center" => ~wrap_last.drew
       /\ wrap_last.cen = <<stamp_size - 1, stamp_size - 1>>

C15_Witness ==
    /\ wrap_calls = 3
    /\ wrap_last.op = "get_center"
    /\ wrap_last.was_requested
    /\ rec_done # {wrap_last.rc}
    /\ n_draws = 2

\* C16: the centre cache has one entry for each (row, col) get_rec has been
\* run for, and a get_center for a (row, col) not requested before makes a
\* new reconstruction.
C16_DistinctEntries ==
    /\ Cardinality(DOMAIN center_cache) = Cardinality(rec_done)
    /\ wrap_last.op = "get_center" /\ ~wrap_last.was_requested => wrap_last.drew

\* an unflagged cutout with a pixel whose bmask has the STAR bit and whose
\* seg value is the object's own number
TouchesHalo(o) ==
    /\ obs_flags[o] = 0
    /\ \E p \in Pix : /\ BADPIX_STAR \in Bits(meds_bmask[o][p])
                      /\ obs_seg[o][p] = seg_number

\* C17: the flag of _flag_y1_stellarhalo_masked is nonzero exactly when some
\* unflagged cutout of the coadd bundle or of the multi-epoch bundle, of any
\* band, has a pixel with the STAR bit in its bmask and the object's own
\* number in its seg; the multi-epoch bundle is examined exactly when the
\* coadd bundle gave no flag; and the flag is in obj_flags of both bundles.
C17_StellarHalo ==
    pc = "returned" /\ ran.halo =>
       LET coadd_touch == \E b \in BandSet : TouchesHalo(<<b, 0>>)
           mb_touch == \E o \in SEObs : TouchesHalo(o)
       IN /\ obj_flags.coadd # 0 <=> (coadd_touch \/ mb_touch)
          /\ obj_flags.mb = obj_flags.coadd
          /\ ran.halo_mb <=> ~coadd_touch

C17_Witness ==
    /\ pc = "returned"
    /\ ran.halo
    /\ ran.halo_mb
    /\ obj_flags.mb # 0
    /\ \E o \in Cutouts : obs_flags[o] # 0

C17_WitnessUnflagged ==
    /\ pc = "returned"
    /\ ran.halo
    /\ obj_flags.mb = 0
    /\ \E o \in Cutouts, p \in Pix :
          BADPIX_STAR \in Bits(meds_bmask[o][p]) /\ obs_flags[o] = 0

ObsLists == {"coadd_obs_list", "obs_list"}

\* array b is array a times f, and array b is array a over f
IsTimes(a, b, f) == DOMAIN a = DOMAIN b /\ \A i \in DOMAIN a : b[i] = a[i] * f
IsOver(a, b, f) == DOMAIN a = DOMAIN b /\ \A i \in DOMAIN a : b[i] * f = a[i]

\* observation o1 is o0 brought to a flux image, and to a surface-brightness
\* image, but for its weight
ToFluxButWeight(o0, o1) ==
    LET s2 == o0.scale * o0.scale
        s4 == s2 * s2
    IN /\ IsTimes(o0.image, o1.image, s2)
       /\ IsOver(o0.weight_raw, o1.weight_raw, s4)
       /\ IsOver(o0.weight_us, o1.weight_us, s4)
       /\ o1.flags = o0.flags /\ o1.scale = o0.scale
ToSBButWeight(o0, o1) ==
    LET s2 == o0.scale * o0.scale
        s4 == s2 * s2
    IN /\ IsOver(o0.image, o1.image, s2)
       /\ IsTimes(o0.weight_raw, o1.weight_raw, s4)
       /\ IsTimes(o0.weight_us, o1.weight_us, s4)
       /\ o1.flags = o0.flags /\ o1.scale = o0.scale

NoPositiveWeight(o0) == \A i \in DOMAIN o0.weight : o0.weight[i] <= 0

\* the weight map with 1 at pixel [0, 0] and the given map elsewhere
OneAtOrigin(w) == [i \in DOMAIN w |-> IF i = 1 THEN 1 ELSE w[i]]

\* the convention the fitter wants
FitterWantsFlux == fitter_type \in {"galsim", "metacal-galsim"}

\* C18 (as amended): after _get_band_observations, every unflagged
\* observation of the coadd list and of the epoch list is in the fitter's
\* convention.  For a galsim fitter a surface-brightness image is multiplied
\* by scale^2 and weight_raw and weight_us divided by scale^4, once; for
\* another fitter a flux image is divided by scale^2 and weight_raw and
\* weight_us multiplied by scale^4, once; an observation already in the
\* fitter's convention, and a flagged one, is unchanged.  The weight map is
\* scaled as weight_raw is, unless it has no positive pixel: then set_weight
\* raises GMixFatalError and the stored map has 1.0 at pixel [0, 0], whatever
\* the scale, and the scaled values elsewhere.
C18_FitterConvention ==
    pc = "band_done" =>
       \A l \in ObsLists : \A k \in DOMAIN band_obs0[l] :
          LET o0 == band_obs0[l][k]
              o1 == band_obs[l][k]
              s4 == (o0.scale * o0.scale) * (o0.scale * o0.scale)
          IN IF o0.flags # 0 THEN o1 = o0
             ELSE IF image_type = "surface_brightness" /\ FitterWantsFlux
             THEN /\ ToFluxButWeight(o0, o1)
                  /\ IF NoPositiveWeight(o0)
                     THEN o1.weight = OneAtOrigin(ArrayOver(o0.weight, s4))
                     ELSE IsOver(o0.weight, o1.weight, s4)
             ELSE IF image_type # "surface_brightness" /\ ~FitterWantsFlux
             THEN /\ ToSBButWeight(o0, o1)
                  /\ IF NoPositiveWeight(o0)
                     THEN o1.weight = OneAtOrigin(ArrayTimes(o0.weight, s4))
                     ELSE IsTimes(o0.weight, o1.weight, s4)
             ELSE o1 = o0

\* C18 as stated: the weight map of every unflagged observation is scaled by
\* the factor weight_raw and weight_us are scaled by.
C18_AsStated ==
    pc = "band_done" =>
       \A l \in ObsLists : \A k \in DOMAIN band_obs0[l] :
          LET o0 == band_obs0[l][k]
              o1 == band_obs[l][k]
              s4 == (o0.scale * o0.scale) * (o0.scale * o0.scale)
          IN IF o0.flags # 0 THEN TRUE
             ELSE IF image_type = "surface_brightness" /\ FitterWantsFlux
             THEN ToFluxButWeight(o0, o1) /\ IsOver(o0.weight, o1.weight, s4)
             ELSE IF image_type # "surface_brightness" /\ ~FitterWantsFlux
             THEN ToSBButWeight(o0, o1) /\ IsTimes(o0.weight, o1.weight, s4)
             ELSE o1 = o0

C18_Witness ==
    /\ pc = "band_done"
    /\ image_type = "surface_brightness"
    /\ fitter_type = "metacal-galsim"
    /\ LET c == band_obs0.coadd_obs_list[1]
           o == band_obs0.obs_list[1]
       IN /\ c.flags = 0 /\ c.scale = 2 /\ ~NoPositiveWeight(c) /\ c.weight_us # None
          /\ o.flags = 0 /\ o.scale = 2 /\ NoPositiveWeight(o)
          /\ band_obs.obs_list[1].weight[1] = 1

\* C19: _get_offchip_nbr_psf_obs_and_jac, called for a band whose coadd WCS
\* was recorded as None because the coadd image file was missing, raises
\* nothing and places no neighbour.
C19_NoneWcsTolerated ==
    nbr_result.kind # "none" /\ wcs_transforms[coadd_file_id] = "None"
                             /\ nbr_file_id = coadd_file_id =>
       /\ nbr_result.kind = "returned"
       /\ nbr_result.psf = "None"

\* C20: when _get_offchip_nbr_psf_obs_and_jac places a neighbour that has a
\* cutout, it returns the central observation's PSF and a Jacobian with the
\* central's four matrix elements, whose centre minus the central's
\* (row0, col0) is taken by the matrix to the neighbour's (u, v) offset; the
\* central's Jacobian is what it was.  A neighbour with a cutout and the
\* central's coadd file id is placed whenever the coadd WCS is there and the
\* matrix can be inverted.
C20_NbrJacobian ==
    /\ nbr_result.kind = "returned" /\ nbr_ncutout >= 1 =>
          LET J == cen_jac0
              N == nbr_result.jac
              drow == N.row0 - J.row0
              dcol == N.col0 - J.col0
          IN /\ nbr_result.psf = "cen_obs.psf"
             /\ <<N.dudrow, N.dudcol, N.dvdrow, N.dvdcol>>
                   = <<J.dudrow, J.dudcol, J.dvdrow, J.dvdcol>>
             /\ J.dudrow * drow + J.dudcol * dcol = uv_nbr[1]
             /\ J.dvdrow * drow + J.dvdcol * dcol = uv_nbr[2]
    /\ cen_jac = cen_jac0
    /\ ( /\ nbr_result.kind # "none" /\ nbr_ncutout >= 1
         /\ nbr_file_id = coadd_file_id
         /\ wcs_transforms[coadd_file_id] = "WCS"
         /\ cen_jac0.dudrow * cen_jac0.dvdcol # cen_jac0.dudcol * cen_jac0.dvdrow )
       => nbr_result.kind = "returned"

C20_Witness ==
    /\ nbr_result.kind = "returned"
    /\ nbr_ncutout >= 1
    /\ uv_nbr # <<0, 0>>
    /\ cen_jac0.dudcol # 0
    /\ cen_jac0.row0 # 0
    /\ nbr_result.jac # cen_jac0

\* the pixel of cutout o that lies at the same place on the sky as pixel q
\* of cutout s
FromCutout(s, q, o) ==
    <<q[1] - cutout_cen[s][1] + cutout_cen[o][1],
      q[2] - cutout_cen[s][2] + cutout_cen[o][2]>>

\* some pixel of some bmask cutout (coadd or single-epoch, any band) that
\* passes the reduction rule lies within two dilation steps of pixel p of
\* cutout o
RuleNear(o, p) ==
    \E s \in Cutouts : \E q \in Pix :
        /\ keep_pixel(meds_bmask[s][q], conf.ignore_when_set_mask)
        /\ Cheb(p, FromCutout(s, q, o)) <= 2

\* C21: the propagation zeroes the weight of a pixel only because of
\* star-saturation: a weight of the multi-epoch bundle is 0 after
\* _prop_extra_bitmasks only if some bmask pixel that passes the reduction
\* rule (SATURATE or INTERP, with STAR, with no ignore-mask bit) reprojects
\* to within 2 dilation steps of it; a bmask bit that fails the rule (a
\* BPM-only pixel, in a coadd or a single-epoch bmask) zeroes no weight.
C21_OnlyStarSaturation ==
    (pc = "returned" /\ ran.prop) =>
        \A o \in SEObs : \A p \in Pix :
            weight[o][p] = 0 => RuleNear(o, p)

\* line i of the map file is a three-column line of exposure e, detector c
MapLineOf(i, e, c) ==
    \/ map_lines.lines[i] = MapLine([kind |-> "desdm", expnum |-> e, ccdnum |-> c], i)
    \/ map_lines.lines[i] = MapLine([kind |-> "desdm0", expnum |-> e, ccdnum |-> c], i)

Mapped(e, c) == \E i \in DOMAIN map_lines.lines : MapLineOf(i, e, c)

\* the pattern of the last line of the map file for exposure e, detector c
LastPattern(e, c) ==
    LET i == CHOOSE j \in DOMAIN map_lines.lines :
                 /\ MapLineOf(j, e, c)
                 /\ \A k \in DOMAIN map_lines.lines : MapLineOf(k, e, c) => k <= j
    IN MapPattern(i)

\* C22: the key _load_psf_map stores for a three-column (DESDM-style) map
\* line equals the key _get_expccd_and_key derives from an image file name
\* of the same exposure and detector, so once the map is loaded
\* _psf_path_from_image_path finds the entry of every mapped exposure: it
\* returns the pattern of the exposure's (last) map line and raises no
\* KeyError.
C22_KeysMatch ==
    pc = "loaded" =>
        \A e \in MapExpNums, c \in MapCcdNums, st \in {"DES", "plain"} :
            LET image_path == DesdmImagePath(e, c, st)
            IN /\ desdm_key(e, c) = get_expccd_and_key(image_path).key
               /\ Mapped(e, c) =>
                     /\ psf_path_from_image_path(psf_map, image_path) =
                            [kind |-> "returned", path |-> LastPattern(e, c)]
                     /\ map_last.image_path = image_path =>
                            /\ map_last.kind = "returned"
                            /\ map_last.path = LastPattern(e, c)

\* the path of a mapped exposure was resolved for a one-digit detector
\* number, where the padding of the key matters, from a file name of each
\* of the two styles
C22_Witness ==
    /\ pc = "loaded"
    /\ \E e \in MapExpNums, c \in MapCcdNums :
          /\ c < 10
          /\ Mapped(e, c)
          /\ map_last.image_path = DesdmImagePath(e, c, "DES")
          /\ map_last.kind = "returned"
          /\ map_last.path = LastPattern(e, c)

IsPowerOfTwo(v) == \E k \in 0..14 : v = 2^k

\* the values of a bad-pixel map are powers of two, no two names sharing one
DistinctBits(map) ==
    /\ \A n \in DOMAIN map : IsPowerOfTwo(map[n])
    /\ \A n1, n2 \in DOMAIN map : map[n1] = map[n2] => n1 = n2

\* C23: in each of the two bad-pixel maps the bit values are distinct powers
\* of two, and the mask built from a configured list of flag names
\* (extra_mask_flags in _set_extra_mask_flags, ignore_when_set_mask in
\* _set_propagate_saturated_stars) is the bitwise OR of the named bits for
\* every list of valid names, a list that names a flag twice included.
C23_MaskIsOr ==
    /\ DistinctBits(DESY3_BADPIX_MAP)
    /\ DistinctBits(DESY4_BADPIX_MAP)
    /\ extra_mask_flags.set =>
          extra_mask_flags.value = or_flag_values(0, extra_mask_flag_list.names)
    /\ ignore_when_set_mask.set =>
          ignore_when_set_mask.value =
              or_flag_values(0, propagate_star_flags.ignore_when_set)

\* one step of the reader, seen from exposure name e: what a call of
\* _get_piff_info does when e is in the cache
CachedStep(e) ==
    e \in DOMAIN piff_info =>
        \* the summary file is not read again, and the cache keeps its value
        /\ piff_reads'[e] = piff_reads[e]
        /\ e \in DOMAIN piff_info' /\ piff_info'[e] = piff_info[e]
        \* a call for e, for any detector, is answered from the cached value
        /\ (piff_calls' # piff_calls /\ piff_last'.impath[1] = e) =>
              LET ccd == piff_last'.impath[2]
              IN IF piff_info[e].none
                 THEN piff_last'.kind = "returned" /\ ~piff_last'.psf_obj
                 ELSE IF ccd \notin DOMAIN piff_info[e].table
                 THEN piff_last'.kind = "RuntimeError" /\ piff_info' = piff_info
                 ELSE /\ piff_last'.kind # "RuntimeError"
                      /\ (piff_last'.flags = 0) =
                             ~piff_rejects([ccdnum |-> ccd,
                                            flag |-> piff_info[e].table[ccd]])

\* C24: across any sequence of _get_piff_info(expname, ccd) calls on one
\* reader, the summary file of an exposure name is read at most once: after
\* the first read that returns (a table, or None for a tolerated missing
\* file) every later call for that name, for any detector, is answered from
\* the cached value; a detector absent from a cached table raises
\* RuntimeError and leaves the cache unchanged.
C24_SummaryReadOnce ==
    /\ [](\A e \in ExpNames : piff_reads[e] <= 1)
    /\ [][\A e \in ExpNames : CachedStep(e)]_vars

\* two calls for one exposure name, the first read its summary file and
\* returned, the second asked for a detector the cached table does not hold:
\* it raised RuntimeError without reading the file again
C24_Witness ==
    /\ piff_calls = 2
    /\ piff_last.kind = "RuntimeError"
    /\ LET e == piff_last.impath[1]
       IN /\ piff_reads[e] = 1
          /\ \A x \in ExpNames \ {e} : piff_reads[x] = 0
          /\ e \in DOMAIN piff_info
          /\ ~piff_info[e].none
          /\ piff_last.impath[2] \notin DOMAIN piff_info[e].table

\* weight map w1 is w0 with pixel [0, 0] forced to 1 and every other pixel
\* divided by f, or multiplied by f
ForcedOver(w0, w1, f) ==
    /\ DOMAIN w1 = DOMAIN w0
    /\ w1[1] = 1
    /\ \A i \in DOMAIN w0 \ {1} : w1[i] * f = w0[i]
ForcedTimes(w0, w1, f) ==
    /\ DOMAIN w1 = DOMAIN w0
    /\ w1[1] = 1
    /\ \A i \in DOMAIN w0 \ {1} : w1[i] = w0[i] * f

\* C25: during the conversion of _get_band_observations, when storing the
\* converted weight raises the fitter library's fatal error (the map has no
\* positive pixel), the error does not propagate: weight pixel [0, 0] is
\* forced to 1.0 and the weight is stored (it now has a positive pixel, so
\* the second set_weight passes), and the observation ends with its image,
\* the other pixels of its weight, and weight_raw and weight_us converted to
\* the target convention.
C25_FatalErrorAbsorbed ==
    pc = "band_done" =>
       \A l \in ObsLists : \A k \in DOMAIN band_obs0[l] :
          LET o0 == band_obs0[l][k]
              o1 == band_obs[l][k]
              s4 == (o0.scale * o0.scale) * (o0.scale * o0.scale)
          IN (o0.flags = 0 /\ NoPositiveWeight(o0)) =>
                IF image_type = "surface_brightness" /\ FitterWantsFlux
                THEN /\ ToFluxButWeight(o0, o1)
                     /\ ForcedOver(o0.weight, o1.weight, s4)
                     /\ ~set_weight_raises(o1.weight)
                ELSE IF image_type # "surface_brightness" /\ ~FitterWantsFlux
                THEN /\ ToSBButWeight(o0, o1)
                     /\ ForcedTimes(o0.weight, o1.weight, s4)
                     /\ ~set_weight_raises(o1.weight)
                ELSE o1 = o0

\* a flux image was converted for a fitter that wants surface brightness,
\* the epoch observation's weight had no positive pixel and a negative one:
\* the call returned, with 1 at [0, 0] and the negative pixel scaled
C25_Witness ==
    /\ pc = "band_done"
    /\ image_type = "flux"
    /\ fitter_type = "max"
    /\ LET o0 == band_obs0.obs_list[1]
           o1 == band_obs.obs_list[1]
       IN /\ o0.flags = 0 /\ o0.scale = 2
          /\ o0.weight = <<0, 0 - WeightUnit>>
          /\ o1.weight = <<1, 0 - (16 * WeightUnit)>>
          /\ o1.image # o0.image

\* C26: _get_psf_objects resolves and loads no PSF model for an exposure
\* that is going to be skipped: for every value of image_flags2check, a
\* non-coadd exposure whose reduced flag in all_image_flags is
\* IMAGE_FLAGS_SET gets None in the PSF list, and no PSF path lookup or file
\* access is made for it.
C26_NoPsfForSkipped ==
    pc = "psf_loaded" =>
       \A e \in SEExposures :
          reduce_flag(image_flags_replaced[e], image_flags2check) = IMAGE_FLAGS_SET =>
             /\ psf_lists[e] = "None"
             /\ e \notin psf_lookups

\* the entry of all_image_flags for exposure e as _load_meds_files left it
FlagsBeforePsf(e) ==
    IF e[2] = 0 THEN image_info_flags[e]
    ELSE reduce_flag(image_flags_replaced[e], image_flags2check)

\* the appends of _get_psf_objects for band b, in the order they were made
BandAppends(b) == SelectSeq(psf_appends, LAMBDA e : e[1] = b)

\* C27: after _get_psf_objects has returned for every band, the PSF list of
\* a band has exactly one entry per image-info row, appended in file-id
\* order; every entry that is None has a nonzero value in all_image_flags,
\* so no observation with flags 0 meets a missing PSF model in
\* _get_psf_image; and PSF loading only ORs bits into all_image_flags: every
\* bit set before it is still set.
C27_PsfListComplete ==
    pc = "psf_loaded" =>
       /\ \A b \in BandSet :
             BandAppends(b) = [i \in 1..NImages[b + 1] |-> <<b, i - 1>>]
       /\ DOMAIN psf_lists = Exposures
       /\ \A e \in Exposures :
             /\ psf_lists[e] = "None" => all_image_flags[e] # 0
             /\ Bits(FlagsBeforePsf(e)) \subseteq Bits(all_image_flags[e])

\* the PSF lists were built with three kinds of None entry: the coadd that
\* is not fit, an exposure skipped for its image flag, and an exposure that
\* was unflagged until its PSF was rejected
C27_Witness ==
    /\ pc = "psf_loaded"
    /\ ~fit_coadd_galaxy
    /\ psf_lists[<<0, 0>>] = "None" /\ FlagsBeforePsf(<<0, 0>>) = 0
    /\ \E e \in SEExposures :
          /\ psf_lists[e] = "None"
          /\ FlagsBeforePsf(e) = IMAGE_FLAGS_SET
          /\ e \notin psf_lookups
    /\ \E e \in SEExposures :
          /\ psf_lists[e] = "None"
          /\ FlagsBeforePsf(e) = 0
          /\ all_image_flags[e] = PSF_IN_BLACKLIST
    /\ \E e \in SEExposures : psf_lists[e] = "obj" /\ all_image_flags[e] = 0

\* C28: _trim_psf returns the sub-image im[rowstart:rowend,
\* colstart:colend] and a new centre equal to the old centre minus
\* (rowstart, colstart), so the returned centre designates the same pixel of
\* the PSF as before, for every centre and every dims (non-square dims and
\* centres whose row and column differ included); the input centre is not
\* modified, and only a non-coadd cutout (icut > 0) is trimmed.  The centre
\* of the call is kept in psf_image.cen_arg, in half pixels.
C28_TrimKeepsCentre ==
    pc = "returned" =>
       LET cen == psf_image.cen_arg
           rowstart == trim_start(cen[1], trim_psf.dims[1])
           colstart == trim_start(cen[2], trim_psf.dims[2])
       IN /\ psf_cen = cen
          /\ IF trim_psf.configured /\ psf_icut > 0
             THEN /\ psf_image.im =
                        slice_image(StampImage, StampShape,
                                    rowstart, trim_end(cen[1], trim_psf.dims[1]),
                                    colstart, trim_end(cen[2], trim_psf.dims[2]))
                  /\ psf_image.cen = <<cen[1] - 2 * rowstart, cen[2] - 2 * colstart>>
             ELSE psf_image.im = StampImage /\ psf_image.cen = cen

====
